---- MODULE Spec2Model ----
(***************************************************************************)
(* Model of pycomplete's prediction scheduler (TextPredictorApp) and       *)
(* prediction policy (LlmPredictor).                                       *)
(*                                                                         *)
(* Two schedulers cooperate on one thread: the GLib host loop (text-change *)
(* events, debounce timers, idle callbacks, the periodic pump, signals)    *)
(* and an asyncio loop that only advances inside the pump, one iteration   *)
(* per pump (loop.stop(); loop.run_forever()).                             *)
(*                                                                         *)
(* Times are integer milliseconds.  Texts are sequences of one-character   *)
(* strings.                                                                *)
(***************************************************************************)
EXTENDS Integers, Sequences, FiniteSets, TLC

VARIABLES
    now,                 \* time.time(), in ms
    running,             \* FALSE once cleanup() has run
    last_request_time,   \* self.last_request_time
    pending_content,     \* self._pending_content (None or a text)
    pending_timer,       \* self._pending_timer (0 = None, else a GLib source id)
    timers,              \* live GLib timeout sources of _execute_prediction_request
    tasks,               \* asyncio tasks created by _execute_prediction_request
    current_task,        \* self._current_task (0 = None, else a task id)
    processing,          \* self._processing_prediction
    ready,               \* asyncio loop: callbacks scheduled with call_soon
    idle_queue,          \* GLib.idle_add callbacks waiting to run _handle_prediction
    current_prediction,  \* self.current_prediction
    overlay,             \* what the overlay shows
    last_input_time,     \* predictor.last_input_time
    last_text,           \* predictor.last_text
    connection_verified, \* predictor._connection_verified
    min_chars,           \* predictor.min_chars
    idle_delay,          \* predictor.idle_delay
    trigger,             \* predictor.trigger (the delimiter, one character)
    result,              \* the outcome of the latest policy evaluation
    nchanges,            \* history: how many content changes have arrived
    last_change,         \* history: the latest content change and its time
    accepted,            \* history: the changes that were not dropped
    followed_soon,       \* history: changes followed by another within the debounce delay
    superseded,          \* history: changes whose unfired timer a later change cancelled
    pending_seq,         \* history: which change pending_content came from
    evaluated,           \* history: changes whose content reached the policy
    fired,               \* history: predictions for which the backend was called
    completions,         \* history: how the task of each change ended
    requests,            \* history: HTTP requests sent for each change
    pump_armed,          \* the 50 ms source of process_async_events is installed
    current_field,       \* self.current_field (0 = None, else a widget)
    typed,               \* history: the type commands run since the latest delivery
    key_event,           \* history: the latest key event and what _on_key returned
    widget,              \* the live widget that accessibility events come from
    targets,             \* the target descriptors in text_field_targets.json
    captured,            \* the capture tool has saved a descriptor of the widget
    match,               \* the outcome of the latest detection or matching call
    walk,                \* the ancestor walk in progress
    stream,              \* the response lines of the latest completion request
    completion,          \* what _get_llm_prediction returned for them
    wall_clock,          \* time.time() at sub-millisecond resolution
    request_stamp,       \* self.last_request_time at that resolution
    timeout,             \* the GLib timeout of _execute_prediction_request
    previous_stamp       \* history: last_request_time before the latest fire that set it

vars == <<now, running, last_request_time, pending_content, pending_timer, timers,
          tasks, current_task, processing, ready, idle_queue, current_prediction,
          overlay, last_input_time, last_text, connection_verified, min_chars,
          idle_delay, trigger, result, nchanges, last_change, accepted,
          followed_soon, superseded, pending_seq, evaluated, fired, completions,
          requests, pump_armed, current_field, typed, key_event, widget, targets,
          captured,
          match, walk, stream, completion, wall_clock, request_stamp, timeout,
          previous_stamp>>

schedVars == <<running, last_request_time, pending_content, pending_timer, timers,
               tasks, current_task, processing, ready, idle_queue,
               current_prediction, overlay, connection_verified, nchanges,
               last_change, accepted, followed_soon, superseded, pending_seq,
               evaluated, fired, completions, requests>>

configVars == <<min_chars, idle_delay, trigger>>

netVars == <<completions, requests>>

bridgeVars == <<pump_armed>>

keyVars == <<current_field, typed, key_event>>

fieldVars == <<widget, targets, captured, match, walk>>

streamVars == <<stream, completion>>

delayVars == <<wall_clock, request_stamp, timeout, previous_stamp>>

auxVars == <<bridgeVars, keyVars, fieldVars, streamVars, delayVars>>

----------------------------------------------------------------------------
(* Bounds of the model *)

MaxLen == 3          \* longest enumerated text of the policy specification
MaxChanges == 2      \* content changes in one run
MaxTasks == 2        \* task slots (one suffices unless single-flight breaks)
MaxTimers == 2       \* timer slots (one suffices unless I2 breaks)
StartClock == 1000   \* the clock at startup; last_request_time starts at 0
MaxElapsed == 1000   \* the clock stops advancing this long after startup
UnitsPerMs == 4      \* clock units in one millisecond (sub-millisecond specification)

(* Program constants *)

DebounceDelay == 250     \* self.debounce_delay = 0.25
DefaultMinChars == 3     \* min_chars=3
DefaultIdleDelay == 1000 \* idle_delay=1.0

TickSteps == {125, 1000}

----------------------------------------------------------------------------
(* Texts *)

None == <<"<None>">>

Whitespace == {" ", "\t"}

Truthy(x) == x # None /\ x # <<>>

Max(a, b) == IF a >= b THEN a ELSE b

Last(s) == s[Len(s)]

EndsWith(text, trig) == Len(text) > 0 /\ Last(text) = trig

RECURSIVE SplitFrom(_, _, _)
SplitFrom(s, d, cur) ==
    IF s = <<>> THEN <<cur>>
    ELSE IF Head(s) = d THEN <<cur>> \o SplitFrom(Tail(s), d, <<>>)
    ELSE SplitFrom(Tail(s), d, Append(cur, Head(s)))

Split(s, d) == SplitFrom(s, d, <<>>)

RECURSIVE LStrip(_)
LStrip(s) ==
    IF s # <<>> /\ Head(s) \in Whitespace THEN LStrip(Tail(s)) ELSE s

RECURSIVE RStrip(_)
RStrip(s) ==
    IF s # <<>> /\ Last(s) \in Whitespace THEN RStrip(SubSeq(s, 1, Len(s) - 1)) ELSE s

Strip(s) == RStrip(LStrip(s))

StripAll(segs) == [i \in 1..Len(segs) |-> Strip(segs[i])]

NonEmpty(s) == s # <<>>

----------------------------------------------------------------------------
(* LlmPredictor: the prediction policy *)

Decision(should, ttype, reason) ==
    [should |-> should, trigger_type |-> ttype, reason |-> reason]

(* Variant: the idle comparison is strict *)
ShouldPredictStrictIdle(text, current_time, lit, mc, idle, trig) ==
    IF text = <<>> THEN Decision(FALSE, "None", "Empty text")
    ELSE IF Len(text) < mc THEN Decision(FALSE, "None", "Text too short")
    ELSE IF EndsWith(text, trig)
        THEN Decision(TRUE, "trigger_char", "Trigger character detected")
    ELSE IF current_time - lit > idle /\ ~EndsWith(text, trig)
        THEN Decision(TRUE, "idle_timeout", "Idle timeout")
    ELSE Decision(FALSE, "None", "No trigger condition met")

(* Variant: the trigger character is looked for before the length *)
ShouldPredictTriggerFirst(text, current_time, lit, mc, idle, trig) ==
    IF text = <<>> THEN Decision(FALSE, "None", "Empty text")
    ELSE IF EndsWith(text, trig)
        THEN Decision(TRUE, "trigger_char", "Trigger character detected")
    ELSE IF Len(text) < mc THEN Decision(FALSE, "None", "Text too short")
    ELSE IF current_time - lit >= idle /\ ~EndsWith(text, trig)
        THEN Decision(TRUE, "idle_timeout", "Idle timeout")
    ELSE Decision(FALSE, "None", "No trigger condition met")

ShouldPredict(text, current_time, lit, mc, idle, trig) ==
    IF text = <<>> THEN Decision(FALSE, "None", "Empty text")
    ELSE IF Len(text) < mc THEN Decision(FALSE, "None", "Text too short")
    ELSE IF EndsWith(text, trig)
        THEN Decision(TRUE, "trigger_char", "Trigger character detected")
    ELSE IF current_time - lit >= idle /\ ~EndsWith(text, trig)
        THEN Decision(TRUE, "idle_timeout", "Idle timeout")
    ELSE Decision(FALSE, "None", "No trigger condition met")

(* Variant: the fragments are not stripped *)
GetPredictionSegmentNoStrip(text, trig) ==
    IF EndsWith(text, trig)
    THEN LET segments == SelectSeq(Split(text, trig), NonEmpty)
         IN  IF segments # <<>> THEN Last(segments) ELSE None
    ELSE LET last_segment == Last(Split(text, trig))
         IN  IF last_segment # <<>> THEN last_segment ELSE None

GetPredictionSegment(text, trig) ==
    IF EndsWith(text, trig)
    THEN LET segments == SelectSeq(StripAll(Split(text, trig)), NonEmpty)
         IN  IF segments # <<>> THEN Last(segments) ELSE None
    ELSE LET last_segment == Strip(Last(Split(text, trig)))
         IN  IF last_segment # <<>> THEN last_segment ELSE None

(* Variant: every evaluation resets the idle clock *)
InputTimeAfterAlways(text, current_time, lit, ltext) == current_time

(* if text_changed: self.last_input_time = current_time *)
InputTimeAfter(text, current_time, lit, ltext) ==
    IF text # ltext THEN current_time ELSE lit

NoResult ==
    [call |-> "None", text |-> None, should |-> FALSE, trigger_type |-> "None",
     decision_reason |-> "None", reason |-> "None", segment |-> None,
     requested |-> FALSE]

(* predict() up to its first suspension point: the decision, the segment and
   whether _get_llm_prediction is called. *)
PredictSync(text, current_time, lit, ltext, mc, idle, trig) ==
    LET lit1 == InputTimeAfter(text, current_time, lit, ltext)
        d    == ShouldPredict(text, current_time, lit1, mc, idle, trig)
        seg  == IF d.should THEN GetPredictionSegment(text, trig) ELSE None
    IN  [call |-> "predict", text |-> text, should |-> d.should,
         trigger_type |-> d.trigger_type, decision_reason |-> d.reason,
         reason |-> IF d.should /\ seg = None THEN "No valid segment found"
                    ELSE d.reason,
         segment |-> seg,
         requested |-> d.should /\ seg # None]

----------------------------------------------------------------------------
(* The asyncio side: tasks and the callbacks the loop runs *)

TaskIds == 1..MaxTasks
TimerIds == 1..MaxTimers

FreeTask ==
    [status |-> "free", content |-> None, seq |-> 0, segment |-> None,
     must_cancel |-> FALSE]

NoPrediction == [seq |-> 0, segment |-> None, text |-> None]

(* The completion a successful request returns (already stripped) *)
CompletionText == <<"l", "o">>

NoRequests == [verify |-> 0, generate |-> 0, verified_before |-> FALSE]

Handle(kind, t, outcome) == [kind |-> kind, task |-> t, outcome |-> outcome]

TaskDone(tsk) == tsk.status \in {"done", "cancelled"}

TaskInFlight(tsk) == tsk.status \in {"created", "await_verify", "await_post"}

Scheduled(rdy, t) == \E i \in 1..Len(rdy) : rdy[i].task = t

(* The state the loop's callbacks read and write, threaded through one
   iteration of the loop. *)
LoopState ==
    [tasks |-> tasks, processing |-> processing, lit |-> last_input_time,
     ltext |-> last_text, cv |-> connection_verified, idle_queue |-> idle_queue,
     evaluated |-> evaluated, fired |-> fired, result |-> result,
     ready |-> ready, completions |-> completions, requests |-> requests]

(* Variant: the done callback leaves the flag as it is *)
HandleTaskResultKeeps(s, t) == s

(* handle_task_result: the done callback of a prediction task *)
HandleTaskResult(s, t) == [s EXCEPT !.processing = FALSE]

(* The task's coroutine returns or is cancelled: the task becomes done and its
   done callback is scheduled with call_soon. *)
FinishTask(s, t, status, outcome) ==
    [s EXCEPT !.tasks[t].status = status,
              !.ready = Append(@, Handle("done_cb", t, "")),
              !.completions = @ \cup {[seq |-> s.tasks[t].seq, outcome |-> outcome]}]

(* Variant: a result is handed over whether or not it carries text *)
DeliverResultAlways(s, t, has_text) ==
    [s EXCEPT !.idle_queue =
        Append(@, [seq |-> s.tasks[t].seq, segment |-> s.tasks[t].segment,
                   text |-> CompletionText])]

(* _async_predict after predict() returned: a result with text is handed to the
   host loop with GLib.idle_add. *)
DeliverResult(s, t, has_text) ==
    IF has_text
    THEN [s EXCEPT !.idle_queue =
              Append(@, [seq |-> s.tasks[t].seq, segment |-> s.tasks[t].segment,
                         text |-> CompletionText])]
    ELSE s

(* Variant: the connection is verified before every prediction *)
SendsVerificationAlways(cv) == TRUE

(* "Verify connection before first prediction": if not self._connection_verified *)
SendsVerification(cv) == ~cv

(* session.post(url, json=data): one HTTP request to /api/generate *)
SendRequest(s, t, kind) ==
    LET seq == s.tasks[t].seq
    IN  IF kind = "verify"
        THEN [s EXCEPT !.requests[seq].verify = @ + 1]
        ELSE [s EXCEPT !.requests[seq].generate = @ + 1]

(* First step of _async_predict(content): predict() up to its first await. *)
TaskFirstStep(s, t) ==
    LET tsk == s.tasks[t]
        r   == PredictSync(tsk.content, now, s.lit, s.ltext,
                           min_chars, idle_delay, trigger)
        s1  == [s EXCEPT !.lit = InputTimeAfter(tsk.content, now, s.lit, s.ltext),
                         !.ltext = IF tsk.content # s.ltext THEN tsk.content ELSE @,
                         !.evaluated = @ \cup {tsk.seq},
                         !.result = r]
        s2  == [s1 EXCEPT
                !.fired = @ \cup {[seq |-> tsk.seq, segment |-> r.segment,
                                   trigger_type |-> r.trigger_type]},
                !.requests[tsk.seq].verified_before = s.cv,
                !.tasks[t].segment = r.segment,
                !.tasks[t].status =
                    IF SendsVerification(s.cv) THEN "await_verify"
                    ELSE "await_post"]
    IN  IF ~r.requested THEN FinishTask(s1, t, "done", "skipped")
        ELSE SendRequest(s2, t, IF SendsVerification(s.cv) THEN "verify"
                                ELSE "generate")

(* The task resumes from a network await. *)
TaskWakeup(s, t, outcome) ==
    LET tsk == s.tasks[t]
    IN  IF tsk.status = "await_verify"
        THEN IF outcome = "ok"
             THEN SendRequest([s EXCEPT !.cv = TRUE,
                                        !.tasks[t].status = "await_post"],
                              t, "generate")
             ELSE FinishTask(s, t, "done", "unavailable")
        ELSE IF tsk.status = "await_post"
        THEN FinishTask(DeliverResult(s, t, outcome = "text"), t, "done",
                        IF outcome = "text" THEN "text"
                        ELSE IF outcome = "none" THEN "empty" ELSE "failed")
        ELSE s

RunHandle(s, h) ==
    LET tsk == s.tasks[h.task]
    IN  IF h.kind = "done_cb" THEN HandleTaskResult(s, h.task)
        ELSE IF ~TaskInFlight(tsk) THEN s
        ELSE IF tsk.must_cancel
            THEN FinishTask(s, h.task, "cancelled", "cancelled")
        ELSE IF h.kind = "step" THEN TaskFirstStep(s, h.task)
        ELSE TaskWakeup(s, h.task, h.outcome)

RECURSIVE RunAll(_, _)
RunAll(s, rdy) ==
    IF rdy = <<>> THEN s ELSE RunAll(RunHandle(s, Head(rdy)), Tail(rdy))

(* Variant: the pump also runs what its callbacks scheduled *)
LoopIterationTwice(s) ==
    RunAll([RunAll([s EXCEPT !.ready = <<>>], s.ready) EXCEPT !.ready = <<>>],
           RunAll([s EXCEPT !.ready = <<>>], s.ready).ready)

(* One iteration of the asyncio loop: the callbacks that are ready when it
   starts are run; what they schedule waits for the next iteration. *)
LoopIteration(s) == RunAll([s EXCEPT !.ready = <<>>], s.ready)

RECURSIVE RunUntilComplete(_)
RunUntilComplete(s) ==
    IF s.ready = <<>> THEN s ELSE RunUntilComplete(LoopIteration(s))

(* A finished task whose callbacks have all run and which is no longer
   self._current_task is garbage. *)
Collect(tsks, cur, rdy) ==
    [t \in TaskIds |->
        IF t # cur /\ TaskDone(tsks[t]) /\ ~Scheduled(rdy, t)
        THEN FreeTask ELSE tsks[t]]

----------------------------------------------------------------------------
(* Widgets of the accessibility tree, detection and target matching *)

MaxAncestors == 2    \* ancestors of the widget in an enumerated tree
MaxPath == 3         \* path entries the model keeps of a walk that does not end
MaxKeys == 2         \* type commands for one delivered prediction
MaxChunks == 3       \* lines of a streamed response

PyNone == "<None>"   \* Python's None where a string is expected

text_field_roles ==
    {"ROLE_TEXT", "ROLE_ENTRY", "ROLE_DOCUMENT_TEXT", "ROLE_PARAGRAPH",
     "ROLE_DOCUMENT_FRAME", "ROLE_EDITBAR", "ROLE_TERMINAL", "ROLE_VIEWPORT",
     "ROLE_SCROLL_PANE", "ROLE_APPLICATION"}

required_interfaces == {"Text", "EditableText", "Component"}

basic_text_interfaces == {"Accessible", "Component"}

significant_roles ==
    {"ROLE_DIALOG", "ROLE_DOCUMENT_FRAME", "ROLE_TOOL_BAR", "ROLE_MENU_BAR",
     "ROLE_PANEL", "ROLE_INTERNAL_FRAME"}

ToSet(seq) == {seq[i] : i \in 1..Len(seq)}

Reverse(seq) == [i \in 1..Len(seq) |-> seq[Len(seq) + 1 - i]]

FirstTwo(path) == SubSeq(path, 1, IF Len(path) < 2 THEN Len(path) ELSE 2)

(* The widget and its ancestors, leaf first; the parent of entry i is entry
   i + 1, the parent of the last entry is None or, in a malformed tree, the
   entry loops_to *)
Chain(w) == <<[role |-> w.role, name |-> w.name]>> \o w.ancestors

Parent(w, i) == IF i < Len(Chain(w)) THEN i + 1 ELSE w.loops_to

(* is_significant_component *)
IsSignificantComponent(node) ==
    \/ node.role \in {"ROLE_APPLICATION", "ROLE_FRAME"}
    \/ (node.name # "" /\ node.name # PyNone)
    \/ node.role \in significant_roles

Walkers == {"_get_path", "get_object_path", "get_simplified_path"}

(* Whether a walk appends the node it visits *)
Included(walker, node) ==
    walker # "get_simplified_path" \/ IsSignificantComponent(node)

(* The path component a walk records for a node *)
Component(walker, node) ==
    IF walker = "get_simplified_path"
    THEN [role |-> node.role,
          name |-> IF node.name # "" /\ node.name # PyNone THEN node.name
                   ELSE PyNone]
    ELSE [role |-> node.role, name |-> node.name]

RECURSIVE WalkedFrom(_, _)
WalkedFrom(walker, chain) ==
    IF chain = <<>> THEN <<>>
    ELSE (IF Included(walker, Head(chain))
          THEN <<Component(walker, Head(chain))>> ELSE <<>>)
         \o WalkedFrom(walker, Tail(chain))

(* The three walks on a tree whose root has no parent: leaf to root, then
   reversed *)
GetPath(w) == Reverse(WalkedFrom("_get_path", Chain(w)))

GetObjectPath(w) == Reverse(WalkedFrom("get_object_path", Chain(w)))

GetSimplifiedPath(w) == Reverse(WalkedFrom("get_simplified_path", Chain(w)))

NoField == [role |-> "None", interfaces |-> <<>>, path |-> <<>>, name |-> PyNone]

NameOrUnnamed(name) == IF name # "" /\ name # PyNone THEN name ELSE "unnamed"

(* TextFieldManager._handle_terminal *)
HandleTerminal(w) ==
    IF "STATE_ENABLED" \in w.states /\ "STATE_VISIBLE" \in w.states
    THEN [role |-> w.role, interfaces |-> w.interfaces, path |-> GetPath(w),
          name |-> NameOrUnnamed(w.name)]
    ELSE NoField

(* TextFieldManager.is_text_field *)
ManagerIsTextField(w) ==
    IF w.role = "ROLE_TERMINAL" THEN HandleTerminal(w)
    ELSE IF /\ w.role \in text_field_roles
            /\ required_interfaces \subseteq ToSet(w.interfaces)
            /\ "STATE_ENABLED" \in w.states
            /\ "STATE_VISIBLE" \in w.states
    THEN [role |-> w.role, interfaces |-> w.interfaces, path |-> GetPath(w),
          name |-> NameOrUnnamed(w.name)]
    ELSE NoField

(* TextFieldSearcher.is_text_field *)
SearcherIsTextField(w) ==
    LET interfaces == ToSet(w.interfaces)
        info == [role |-> w.role, interfaces |-> w.interfaces,
                 path |-> GetSimplifiedPath(w), name |-> NameOrUnnamed(w.name)]
        role_match == w.role \in text_field_roles
        has_basic_interfaces == basic_text_interfaces \subseteq interfaces
        has_text_interface == "Text" \in interfaces
        is_editable == \/ "STATE_EDITABLE" \in w.states
                       \/ "EditableText" \in interfaces
                       \/ w.contenteditable
        enabled == "STATE_ENABLED" \in w.states
        visible == "STATE_VISIBLE" \in w.states
        showing == "STATE_SHOWING" \in w.states
    IN  IF w.role = "ROLE_TERMINAL"
        THEN IF enabled /\ (visible \/ showing) THEN info ELSE NoField
        ELSE IF /\ (role_match \/ is_editable)
                /\ has_basic_interfaces
                /\ (has_text_interface \/ w.role = "ROLE_TERMINAL")
                /\ enabled
                /\ (visible \/ showing)
        THEN info
        ELSE NoField

(* json.dump of the target list: a name that is None is written as null *)
JsonDump(ts) ==
    [i \in 1..Len(ts) |->
        [role |-> ts[i].role,
         interfaces |-> ts[i].interfaces,
         path |-> [j \in 1..Len(ts[i].path) |->
                      [role |-> ts[i].path[j].role,
                       name |-> IF ts[i].path[j].name = PyNone
                                THEN [type |-> "null", value |-> ""]
                                ELSE [type |-> "string",
                                      value |-> ts[i].path[j].name]]],
         name |-> [type |-> "string", value |-> ts[i].name]]]

(* json.load of the target list *)
JsonLoad(js) ==
    [i \in 1..Len(js) |->
        [role |-> js[i].role,
         interfaces |-> js[i].interfaces,
         path |-> [j \in 1..Len(js[i].path) |->
                      [role |-> js[i].path[j].role,
                       name |-> IF js[i].path[j].name.type = "null" THEN PyNone
                                ELSE js[i].path[j].name.value]],
         name |-> js[i].name.value]]

(* TextFieldSearcher.save_target: load the file, append, write it back *)
SaveTarget(ts, target_info) == JsonLoad(JsonDump(Append(ts, target_info)))

(* Variant: the role or the interfaces suffice *)
ListenerMatchesTargetEither(w, target) ==
    LET current_path == GetObjectPath(w)
        target_path == target.path
        app_matched ==
            \E i \in 1..Len(FirstTwo(current_path)),
               j \in 1..Len(FirstTwo(target_path)) :
                /\ current_path[i].role = target_path[j].role
                /\ current_path[i].name = target_path[j].name
    IN  /\ ~(Len(current_path) < 2 \/ Len(target_path) < 2)
        /\ app_matched
        /\ (Last(current_path).role = target.role
            \/ ToSet(target.interfaces) \subseteq ToSet(w.interfaces))

(* Variant: the interfaces must be the descriptor's exactly *)
ListenerMatchesTargetSameInterfaces(w, target) ==
    LET current_path == GetObjectPath(w)
        target_path == target.path
        app_matched ==
            \E i \in 1..Len(FirstTwo(current_path)),
               j \in 1..Len(FirstTwo(target_path)) :
                /\ current_path[i].role = target_path[j].role
                /\ current_path[i].name = target_path[j].name
    IN  /\ ~(Len(current_path) < 2 \/ Len(target_path) < 2)
        /\ app_matched
        /\ Last(current_path).role = target.role
        /\ ToSet(target.interfaces) = ToSet(w.interfaces)

(* Variant: the application is looked for in the whole path *)
ListenerMatchesTargetAnyEntry(w, target) ==
    LET current_path == GetObjectPath(w)
        target_path == target.path
        app_matched ==
            \E i \in 1..Len(current_path), j \in 1..Len(target_path) :
                /\ current_path[i].role = target_path[j].role
                /\ current_path[i].name = target_path[j].name
    IN  /\ ~(Len(current_path) < 2 \/ Len(target_path) < 2)
        /\ app_matched
        /\ Last(current_path).role = target.role
        /\ ToSet(target.interfaces) \subseteq ToSet(w.interfaces)

(* TextFieldListener.matches_target *)
ListenerMatchesTarget(w, target) ==
    LET current_path == GetObjectPath(w)
        target_path == target.path
        app_matched ==
            \E i \in 1..Len(FirstTwo(current_path)),
               j \in 1..Len(FirstTwo(target_path)) :
                /\ current_path[i].role = target_path[j].role
                /\ current_path[i].name = target_path[j].name
    IN  /\ ~(Len(current_path) < 2 \/ Len(target_path) < 2)
        /\ app_matched
        /\ Last(current_path).role = target.role
        /\ ToSet(target.interfaces) \subseteq ToSet(w.interfaces)

(* Variant: without descriptors every widget is a target *)
ListenerIsTargetFieldDefault(w, ts) ==
    ts = <<>> \/ \E i \in 1..Len(ts) : ListenerMatchesTarget(w, ts[i])

(* TextFieldListener.is_target_field *)
ListenerIsTargetField(w, ts) ==
    \E i \in 1..Len(ts) : ListenerMatchesTarget(w, ts[i])

(* TextPredictor.matches_target of predictor.py *)
PredictorMatchesTarget(w, target) ==
    /\ w.role = target.role
    /\ ToSet(target.interfaces) \subseteq ToSet(w.interfaces)

(* TextPredictor.is_target_field of predictor.py *)
PredictorIsTargetField(w, ts) ==
    \E i \in 1..Len(ts) : PredictorMatchesTarget(w, ts[i])

NoMatch == [call |-> "None", target |-> 0, accepted |-> FALSE]

NoWalk == [walker |-> "None", current |-> 0, path |-> <<>>, done |-> TRUE]

(* An enabled, visible entry of an application named "app" *)
DefaultWidget ==
    [role |-> "ROLE_ENTRY", name |-> "",
     interfaces |-> <<"Accessible", "Component", "Text", "EditableText">>,
     states |-> {"STATE_ENABLED", "STATE_VISIBLE", "STATE_SHOWING"},
     contenteditable |-> FALSE,
     ancestors |-> <<[role |-> "ROLE_FRAME", name |-> ""],
                     [role |-> "ROLE_APPLICATION", name |-> "app"]>>,
     loops_to |-> 0]

----------------------------------------------------------------------------
(* The host loop side: TextPredictorApp *)

Hel == <<"h", "e", "l">>
Hi == <<"h", "i">>
HelloWorld ==
    <<"h", "e", "l", "l", "o", " ", "w", "o", "r", "l", "d", " ">>

(* Field contents a text-change event may carry *)
Contents == {<<>>, Hel, HelloWorld}

(* No key event has been handled *)
NoKey == [key |-> "None", type |-> "None", consumed |-> FALSE]

(* The state at startup that the scheduler specification leaves alone *)
AuxInit ==
    /\ completions = {}
    /\ requests = [seq \in 1..MaxChanges |-> NoRequests]
    /\ pump_armed = TRUE
    /\ current_field = 0
    /\ typed = <<>>
    /\ key_event = NoKey

(* No event source other than one detected text field, no targets file *)
FieldIdle ==
    /\ widget = DefaultWidget
    /\ targets = <<>>
    /\ captured = FALSE
    /\ match = NoMatch
    /\ walk = NoWalk

(* The lines of a streamed response.  A line is a JSON object, with or
   without a "response" string and a "done" flag; or text that is not JSON
   (json.loads raises JSONDecodeError); or bytes that are not UTF-8
   (json.loads raises UnicodeDecodeError); or JSON that is not an object, such
   as 5 or null (the membership test or chunk.get raises) *)
Absent == <<"<absent>">>

ObjectChunk(response, done) ==
    [kind |-> "object", response |-> response, done |-> done]

OtherChunk(kind) == [kind |-> kind, response |-> Absent, done |-> FALSE]

(* What the loop body does with one line: the completion after it, and
   whether it left the loop with break, went on, or raised *)
ReadChunk(text, line) ==
    IF line.kind = "invalid_json"
    THEN [completion |-> text, exit |-> "continue"]
    ELSE IF line.kind # "object"
    THEN [completion |-> text, exit |-> "raise"]
    ELSE [completion |-> IF line.response # Absent
                         THEN text \o line.response ELSE text,
          exit |-> IF line.done THEN "break" ELSE "continue"]

(* async for line in response.content *)
RECURSIVE ReadLines(_, _)
ReadLines(text, lines) ==
    IF lines = <<>> THEN [completion |-> text, exit |-> "end"]
    ELSE LET r == ReadChunk(text, Head(lines))
         IN  IF r.exit = "continue" THEN ReadLines(r.completion, Tail(lines))
             ELSE r

(* _get_llm_prediction from the response on: completion.strip(), or None from
   the outer except if the loop raised *)
ReadCompletion(lines) ==
    LET r == ReadLines(<<>>, lines)
    IN  IF r.exit = "raise" THEN None ELSE Strip(r.completion)

NotReturned == [returned |-> FALSE, value |-> None]

(* No response stream under study *)
StreamIdle ==
    /\ stream = <<>>
    /\ completion = NotReturned

NoTimeout == [armed |-> FALSE, at |-> 0, delay |-> 0]

(* No timeout under study at sub-millisecond resolution *)
DelayIdle ==
    /\ wall_clock = 0
    /\ request_stamp = 0
    /\ timeout = NoTimeout
    /\ previous_stamp = 0

AppInit ==
    /\ now = StartClock
    /\ running = TRUE
    /\ last_request_time = 0
    /\ pending_content = None
    /\ pending_timer = 0
    /\ timers = {}
    /\ tasks = [t \in TaskIds |-> FreeTask]
    /\ current_task = 0
    /\ processing = FALSE
    /\ ready = <<>>
    /\ idle_queue = <<>>
    /\ current_prediction = NoPrediction
    /\ overlay = NoPrediction
    /\ last_input_time = 0
    /\ last_text = <<>>
    /\ connection_verified = FALSE
    /\ min_chars = DefaultMinChars
    /\ idle_delay = DefaultIdleDelay
    /\ trigger = " "
    /\ result = NoResult
    /\ nchanges = 0
    /\ last_change = [content |-> None, time |-> 0]
    /\ accepted = {}
    /\ followed_soon = {}
    /\ superseded = {}
    /\ pending_seq = 0
    /\ evaluated = {}
    /\ fired = {}
    /\ AuxInit

Init == AppInit /\ FieldIdle /\ StreamIdle /\ DelayIdle

(* Variant: the previous timer is not removed *)
CancelPendingForgotten(tms, pt) == tms

(* GLib.source_remove(self._pending_timer) *)
CancelPending(tms, pt) == {tm \in tms : tm.id # pt}

(* Variant: a content change is never dropped *)
DebounceNeverSkips(cur, tsks, proc) == FALSE

(* "previous task still processing": the content change is dropped *)
DebounceSkips(cur, tsks, proc) ==
    cur # 0 /\ ~TaskDone(tsks[cur]) /\ proc

(* delay = max(0, int((debounce_delay - time_since_last) * 1000)); with times
   in whole milliseconds the truncation to int leaves the value as it is *)
DebounceDelayMs(current_time, lrt) ==
    Max(0, DebounceDelay - (current_time - lrt))

(* Variant: content already pending is kept *)
StorePendingFirst(old, old_seq, content, seq) ==
    IF old # None THEN <<old, old_seq>> ELSE <<content, seq>>

(* self._pending_content = content *)
StorePending(old, old_seq, content, seq) == <<content, seq>>

TimerIdsOf(tms) == {tm.id : tm \in tms}

IsFreshTimerId(tms, id) ==
    id \notin TimerIdsOf(tms) /\ \A j \in 1..(id - 1) : j \in TimerIdsOf(tms)

IsFreshTaskId(tsks, id) ==
    tsks[id].status = "free" /\ \A j \in 1..(id - 1) : tsks[j].status # "free"

(* _debounce_prediction_request(content), reached from _on_text_changed *)
DebouncePredictionRequest(content) ==
    /\ nchanges' = nchanges + 1
    /\ last_change' = [content |-> content, time |-> now]
    /\ followed_soon' =
           IF nchanges > 0 /\ now - last_change.time < DebounceDelay
           THEN followed_soon \cup {nchanges} ELSE followed_soon
    /\ superseded' =
           IF \E tm \in timers : tm.id = pending_timer
           THEN superseded \cup {pending_seq} ELSE superseded
    /\ LET tms1 == IF pending_timer # 0
                   THEN CancelPending(timers, pending_timer) ELSE timers
           seq  == nchanges + 1
       IN  IF DebounceSkips(current_task, tasks, processing)
           THEN /\ timers' = tms1
                /\ pending_timer' = 0
                /\ UNCHANGED <<pending_content, pending_seq, accepted>>
           ELSE \E id \in TimerIds :
                /\ IsFreshTimerId(tms1, id)
                /\ pending_content' =
                       StorePending(pending_content, pending_seq, content, seq)[1]
                /\ pending_seq' =
                       StorePending(pending_content, pending_seq, content, seq)[2]
                /\ timers' = tms1 \cup
                       {[id |-> id,
                         due |-> now + DebounceDelayMs(now, last_request_time)]}
                /\ pending_timer' = id
                /\ accepted' = accepted \cup {seq}
    /\ UNCHANGED <<now, running, last_request_time, tasks, current_task,
                   processing, ready, idle_queue, current_prediction, overlay,
                   last_input_time, last_text, connection_verified, configVars,
                   result, evaluated, fired, netVars>>

(* _on_text_changed for a text-change event of the widget: an event of a
   widget that is_text_field does not detect is ignored *)
OnTextChanged(content) ==
    /\ running
    /\ nchanges < MaxChanges
    /\ match' = [call |-> "_on_text_changed", target |-> 0,
                 accepted |-> ManagerIsTextField(widget) # NoField]
    /\ IF ManagerIsTextField(widget) = NoField
       THEN UNCHANGED <<now, schedVars, configVars, last_input_time, last_text,
                        result, current_field>>
       ELSE /\ current_field' = 1
            /\ DebouncePredictionRequest(content)
    /\ UNCHANGED <<bridgeVars, typed, key_event, widget, targets, captured,
                   walk, streamVars, delayVars>>

(* Variant: a fired timer never drops its content *)
ExecuteNeverSkips(proc) == FALSE

(* "previous prediction in progress": the fired timer's content is dropped *)
ExecuteSkips(proc) == proc

(* Variant: the flag is not raised *)
ProcessingNotRaised == FALSE

(* self._processing_prediction = True, before the task is created *)
ProcessingOnCreate == TRUE

(* _execute_prediction_request: a debounce timer fires; returning False
   removes the source *)
TimerFires(tm) ==
    /\ running
    /\ tm \in timers
    /\ tm.due <= now
    /\ timers' = timers \ {tm}
    /\ pending_timer' = 0
    /\ IF ~Truthy(pending_content)
       THEN UNCHANGED <<pending_content, pending_seq, last_request_time,
                        processing, tasks, current_task, ready>>
       ELSE /\ pending_content' = None
            /\ pending_seq' = 0
            /\ last_request_time' = now
            /\ IF ExecuteSkips(processing)
               THEN UNCHANGED <<processing, tasks, current_task, ready>>
               ELSE LET tsks1 == Collect(tasks, 0, ready)
                    IN  \E id \in TaskIds :
                        /\ IsFreshTaskId(tsks1, id)
                        /\ processing' = ProcessingOnCreate
                        /\ tasks' = [tsks1 EXCEPT ![id] =
                               [status |-> "created", content |-> pending_content,
                                seq |-> pending_seq, segment |-> None,
                                must_cancel |-> FALSE]]
                        /\ current_task' = id
                        /\ ready' = Append(ready, Handle("step", id, ""))
    /\ UNCHANGED <<now, running, idle_queue, current_prediction, overlay,
                   last_input_time, last_text, connection_verified, configVars,
                   result, nchanges, last_change, accepted, followed_soon, superseded,
                   evaluated, fired, netVars, auxVars>>

ApplyLoopState(s) ==
    /\ tasks' = Collect(s.tasks, current_task, s.ready)
    /\ processing' = s.processing
    /\ last_input_time' = s.lit
    /\ last_text' = s.ltext
    /\ connection_verified' = s.cv
    /\ idle_queue' = s.idle_queue
    /\ evaluated' = s.evaluated
    /\ fired' = s.fired
    /\ result' = s.result
    /\ ready' = s.ready
    /\ completions' = s.completions
    /\ requests' = s.requests

(* What process_async_events returns to GLib, which keeps the source while
   the callback returns True: "return True" after the try block *)
ProcessAsyncEvents(raised) == TRUE

(* process_async_events: loop.stop(); loop.run_forever() runs one iteration of
   the asyncio loop; an exception of the loop is caught and logged *)
Pump ==
    /\ running
    /\ pump_armed
    /\ \E raised \in BOOLEAN :
           /\ IF raised
              THEN UNCHANGED <<tasks, processing, last_input_time, last_text,
                               connection_verified, idle_queue, evaluated, fired,
                               result, ready, completions, requests>>
              ELSE ApplyLoopState(LoopIteration(LoopState))
           /\ pump_armed' = ProcessAsyncEvents(raised)
    /\ UNCHANGED <<now, running, last_request_time, pending_content,
                   pending_timer, timers, current_task, current_prediction,
                   overlay, configVars, nchanges, last_change, accepted,
                   followed_soon, superseded, pending_seq, keyVars, fieldVars,
                   streamVars, delayVars>>

AwaitOutcomes(tsk) ==
    IF tsk.status = "await_verify" THEN {"ok", "fail"}
    ELSE IF tsk.status = "await_post" THEN {"text", "none", "error"}
    ELSE {}

(* The backend answers (or fails to answer) the request a task is waiting
   for: the task's wakeup is scheduled *)
IoArrives(t, outcome) ==
    /\ running
    /\ outcome \in AwaitOutcomes(tasks[t])
    /\ ~Scheduled(ready, t)
    /\ ready' = Append(ready, Handle("wakeup", t, outcome))
    /\ UNCHANGED <<now, running, last_request_time, pending_content,
                   pending_timer, timers, tasks, current_task, processing,
                   idle_queue, current_prediction, overlay, last_input_time,
                   last_text, connection_verified, configVars, result, nchanges,
                   last_change, accepted, followed_soon, superseded, pending_seq,
                   evaluated, fired, netVars, auxVars>>

(* The idle callback of GLib.idle_add runs _handle_prediction(result.text) *)
HandlePrediction ==
    /\ running
    /\ idle_queue # <<>>
    /\ current_prediction' = Head(idle_queue)
    /\ overlay' = Head(idle_queue)
    /\ idle_queue' = Tail(idle_queue)
    /\ typed' = <<>>
    /\ UNCHANGED <<now, running, last_request_time, pending_content,
                   pending_timer, timers, tasks, current_task, processing, ready,
                   last_input_time, last_text, connection_verified, configVars,
                   result, nchanges, last_change, accepted, followed_soon, superseded,
                   pending_seq, evaluated, fired, netVars, bridgeVars,
                   current_field, key_event, fieldVars, streamVars, delayVars>>

(* Variant: the prediction is typed as it is *)
TypeCommandBare(text) == text

(* The string handed to ydotool type: ' ' + text *)
TypeCommand(text) == <<" ">> \o text

(* _insert_prediction(self.current_prediction): the type command runs; if it
   succeeded the prediction is forgotten and the overlay hidden *)
InsertPrediction(ok) ==
    /\ typed' = Append(typed, [seq |-> current_prediction.seq,
                               command |-> TypeCommand(current_prediction.text),
                               ok |-> ok])
    /\ IF ok
       THEN /\ current_prediction' = NoPrediction
            /\ overlay' = NoPrediction
       ELSE UNCHANGED <<current_prediction, overlay>>

(* A key event as the keystroke listener sees it, with the value _on_key
   returned for it: TRUE consumes the event, FALSE passes it on *)
KeyEvent(is_trigger, pressed, consumed) ==
    [key |-> IF is_trigger THEN "trigger" ELSE "other",
     type |-> IF pressed THEN "pressed" ELSE "released",
     consumed |-> consumed]

(* Variant: the trigger key is consumed whether a prediction is active or not *)
OnKeyReturnsTriggerAlways(has_field, has_prediction, is_trigger) == is_trigger

(* The value _on_key returns *)
OnKeyReturns(has_field, has_prediction, is_trigger) ==
    IF ~has_field \/ ~has_prediction THEN FALSE
    ELSE IF is_trigger THEN TRUE
    ELSE FALSE

(* _on_key: a key event, of the trigger key or not, pressed or released; the
   type command it may run succeeds or fails *)
OnKey(is_trigger, pressed) ==
    /\ running
    /\ IF current_field = 0 \/ ~Truthy(current_prediction.text)
       THEN UNCHANGED <<typed, current_prediction, overlay>>
       ELSE IF is_trigger /\ pressed
       THEN Len(typed) < MaxKeys /\ \E ok \in BOOLEAN : InsertPrediction(ok)
       ELSE UNCHANGED <<typed, current_prediction, overlay>>
    /\ key_event' = KeyEvent(is_trigger, pressed,
                             OnKeyReturns(current_field # 0,
                                          Truthy(current_prediction.text),
                                          is_trigger))
    /\ UNCHANGED <<now, running, last_request_time, pending_content,
                   pending_timer, timers, tasks, current_task, processing, ready,
                   idle_queue, last_input_time, last_text, connection_verified,
                   configVars, result, nchanges, last_change, accepted,
                   followed_soon, superseded, pending_seq, evaluated, fired,
                   netVars, bridgeVars, current_field, fieldVars, streamVars,
                   delayVars>>

(* Variant: cleanup does not cancel the task *)
CancelTaskForgotten(s, cur) == s

(* self._current_task.cancel() *)
CancelTask(s, cur) ==
    IF cur # 0 /\ ~TaskDone(s.tasks[cur])
    THEN [s EXCEPT !.tasks[cur].must_cancel = TRUE,
                   !.ready = IF Scheduled(@, cur) THEN @
                             ELSE Append(@, Handle("wakeup", cur, "cancel"))]
    ELSE s

(* Variant: cleanup does not run the loop *)
CleanupLoopNotRun(s) == s

(* The loop runs inside cleanup: run_until_complete(session.close()) and
   run_until_complete(predictor.cleanup()) *)
CleanupLoopRun(s) == RunUntilComplete(s)

(* cleanup(): cancel the task, remove the timer, run the loop to completion,
   close it, deregister the listeners and exit *)
Cleanup ==
    /\ running
    /\ running' = FALSE
    /\ timers' = IF pending_timer # 0
                 THEN CancelPending(timers, pending_timer) ELSE timers
    /\ ApplyLoopState(CleanupLoopRun(CancelTask(LoopState, current_task)))
    /\ UNCHANGED <<now, last_request_time, pending_content, pending_timer,
                   current_task, current_prediction, overlay, configVars,
                   nchanges, last_change, accepted, followed_soon, superseded,
                   pending_seq, auxVars>>

(* The clock advances; a timer that is due fires before it advances further *)
Tick(d) ==
    /\ running
    /\ now + d <= StartClock + MaxElapsed
    /\ \A tm \in timers : tm.due > now
    /\ now' = now + d
    /\ UNCHANGED <<schedVars, configVars, last_input_time, last_text, result,
                   auxVars>>

Next ==
    \/ \E content \in Contents : OnTextChanged(content)
    \/ \E tm \in timers : TimerFires(tm)
    \/ Pump
    \/ \E t \in TaskIds, outcome \in {"ok", "fail", "text", "none", "error"} :
           IoArrives(t, outcome)
    \/ HandlePrediction
    \/ Cleanup
    \/ \E d \in TickSteps : Tick(d)

Spec == Init /\ [][Next]_vars

(* The application with its keystroke listener: the trigger key accepts the
   prediction on display.  The text field holds one of two contents. *)
KeyContents == {Hel, HelloWorld}

KeyTickSteps == {500, 1000}

KeyNext ==
    \/ \E content \in KeyContents : OnTextChanged(content)
    \/ \E tm \in timers : TimerFires(tm)
    \/ Pump
    \/ \E t \in TaskIds, outcome \in {"ok", "fail", "text", "none", "error"} :
           IoArrives(t, outcome)
    \/ HandlePrediction
    \/ \E is_trigger, pressed \in BOOLEAN : OnKey(is_trigger, pressed)
    \/ Cleanup
    \/ \E d \in KeyTickSteps : Tick(d)

KeySpec == Init /\ [][KeyNext]_vars

(* The same application under a host loop that keeps serving its sources and
   a backend that answers.  The pump is a 50 ms GLib source whose callback
   returns True, so GLib calls it again and again: weak fairness of Pump.
   Every request the application waits for is answered or fails in the end:
   weak fairness of the backend's answer. *)
BackendAnswers ==
    \E t \in TaskIds, outcome \in {"ok", "fail", "text", "none", "error"} :
        IoArrives(t, outcome)

(* A pump would run a callback: the state predicate under which Pump changes
   the state *)
PumpReady == running /\ pump_armed /\ ready # <<>>

(* WF_vars(Pump), with ENABLED <<Pump>>_vars written as PumpReady *)
PumpFair == []<>(~PumpReady) \/ []<><<Pump>>_vars

(* The callbacks that read or write the scheduler's state.  _on_key touches
   only the prediction on display, so key events are left to KeySpec. *)
LiveNext ==
    \/ \E content \in KeyContents : OnTextChanged(content)
    \/ \E tm \in timers : TimerFires(tm)
    \/ Pump
    \/ BackendAnswers
    \/ HandlePrediction
    \/ Cleanup
    \/ \E d \in KeyTickSteps : Tick(d)

LiveSpec == Init /\ [][LiveNext]_vars /\ PumpFair /\ WF_vars(BackendAnswers)

----------------------------------------------------------------------------
(* The policy on its own: one direct call of _should_predict or of predict(),
   on every text, clock reading, predictor state and configuration of a
   bounded set *)

Alphabet == {"a", " ", "\t", ","}

BoundedTexts == UNION {[1..n -> Alphabet] : n \in 0..MaxLen}

(* A text whose part after the last comma is whitespace *)
BlankTail == <<"a", ",", " ">>

Texts == BoundedTexts \cup {Hi, Hel, HelloWorld}

PolicyTimes == {0, 1, 1000, 1001, 2000}

PolicyInit ==
    /\ now \in PolicyTimes
    /\ last_input_time \in PolicyTimes
    /\ last_text \in {<<>>, Hi, Hel, BlankTail}
    /\ min_chars \in 1..DefaultMinChars
    /\ idle_delay \in {1, DefaultIdleDelay}
    /\ trigger \in {" ", ","}
    /\ result = NoResult
    /\ running = TRUE
    /\ last_request_time = 0
    /\ pending_content = None
    /\ pending_timer = 0
    /\ timers = {}
    /\ tasks = [t \in TaskIds |-> FreeTask]
    /\ current_task = 0
    /\ processing = FALSE
    /\ ready = <<>>
    /\ idle_queue = <<>>
    /\ current_prediction = NoPrediction
    /\ overlay = NoPrediction
    /\ connection_verified = FALSE
    /\ nchanges = 0
    /\ last_change = [content |-> None, time |-> 0]
    /\ accepted = {}
    /\ followed_soon = {}
    /\ superseded = {}
    /\ pending_seq = 0
    /\ evaluated = {}
    /\ fired = {}
    /\ AuxInit
    /\ FieldIdle
    /\ StreamIdle
    /\ DelayIdle

(* _should_predict(text, current_time) *)
PolicyShouldPredict(text) ==
    /\ result = NoResult
    /\ LET d == ShouldPredict(text, now, last_input_time, min_chars, idle_delay,
                              trigger)
       IN  result' = [call |-> "_should_predict", text |-> text,
                      should |-> d.should, trigger_type |-> d.trigger_type,
                      decision_reason |-> d.reason, reason |-> d.reason,
                      segment |-> None, requested |-> FALSE]
    /\ UNCHANGED <<now, schedVars, configVars, last_input_time, last_text,
                   auxVars>>

(* predict(text), up to the call of the backend *)
PolicyPredict(text) ==
    /\ result = NoResult
    /\ result' = PredictSync(text, now, last_input_time, last_text, min_chars,
                             idle_delay, trigger)
    /\ last_input_time' = InputTimeAfter(text, now, last_input_time, last_text)
    /\ last_text' = IF text # last_text THEN text ELSE last_text
    /\ UNCHANGED <<now, schedVars, configVars, auxVars>>

PolicyNext ==
    \/ \E text \in Texts : PolicyShouldPredict(text)
    \/ \E text \in Texts : PolicyPredict(text)

PolicySpec == PolicyInit /\ [][PolicyNext]_vars

----------------------------------------------------------------------------
(* Detection and matching on their own: one widget of a bounded set of
   well-formed trees, one of a few target lists, and the handlers and
   functions that decide whether the widget is a target *)

LeafRoles == {"ROLE_ENTRY", "ROLE_TERMINAL", "ROLE_PUSH_BUTTON"}

InterfaceLists ==
    {<<>>, <<"Accessible", "Component", "Text">>,
     <<"Accessible", "Component", "Text", "EditableText">>}

StateSets == SUBSET {"STATE_ENABLED", "STATE_VISIBLE", "STATE_SHOWING"}

AncestorNodes == [role : {"ROLE_APPLICATION", "ROLE_FILLER"}, name : {"", "app"}]

Ancestries == UNION {[1..n -> AncestorNodes] : n \in 0..MaxAncestors}

Widgets ==
    [role : LeafRoles, name : {"", "field"}, interfaces : InterfaceLists,
     states : StateSets, contenteditable : {FALSE}, ancestors : Ancestries,
     loops_to : {0}]

EntryTarget ==
    [role |-> "ROLE_ENTRY", interfaces |-> <<"Component", "Text">>,
     path |-> <<[role |-> "ROLE_APPLICATION", name |-> "app"],
                [role |-> "ROLE_ENTRY", name |-> "field"]>>,
     name |-> "field"]

TextTarget ==
    [role |-> "ROLE_TEXT", interfaces |-> <<"Text">>,
     path |-> <<[role |-> "ROLE_APPLICATION", name |-> "app"],
                [role |-> "ROLE_TEXT", name |-> PyNone]>>,
     name |-> "unnamed"]

TargetLists == {<<>>, <<EntryTarget>>, <<TextTarget, EntryTarget>>}

FieldInit ==
    /\ AppInit
    /\ StreamIdle
    /\ DelayIdle
    /\ widget \in Widgets
    /\ targets \in TargetLists
    /\ captured = FALSE
    /\ match = NoMatch
    /\ walk = NoWalk

FieldCall(call, target, verdict) ==
    /\ match = NoMatch
    /\ match' = [call |-> call, target |-> target, accepted |-> verdict]
    /\ UNCHANGED <<now, schedVars, configVars, last_input_time, last_text, result,
                   bridgeVars, keyVars, widget, targets, captured, walk,
                   streamVars, delayVars>>

(* A text-change event of the widget reaches the application *)
AppTextChanged == match = NoMatch /\ OnTextChanged(Hel)

(* TextFieldSearcher.is_text_field(widget) *)
SearcherIsTextFieldCall ==
    FieldCall("searcher.is_text_field", 0, SearcherIsTextField(widget) # NoField)

(* TextFieldListener.is_target_field(widget) *)
ListenerIsTargetFieldCall ==
    FieldCall("listener.is_target_field", 0, ListenerIsTargetField(widget, targets))

(* TextFieldListener.matches_target(widget, targets[i]) *)
ListenerMatchesTargetCall(i) ==
    FieldCall("listener.matches_target", i, ListenerMatchesTarget(widget, targets[i]))

(* TextPredictor.is_target_field(widget) of predictor.py *)
PredictorIsTargetFieldCall ==
    FieldCall("predictor.is_target_field", 0,
              PredictorIsTargetField(widget, targets))

(* TextPredictor.matches_target(widget, targets[i]) of predictor.py *)
PredictorMatchesTargetCall(i) ==
    FieldCall("predictor.matches_target", i,
              PredictorMatchesTarget(widget, targets[i]))

(* TextFieldSearcher.on_text_change for the text "here" typed into the widget:
   the text is read through the Text interface, and a widget that
   is_text_field accepts is saved as a target *)
SearcherOnTextChange ==
    /\ ~captured
    /\ match = NoMatch
    /\ "Text" \in ToSet(widget.interfaces)
    /\ SearcherIsTextField(widget) # NoField
    /\ targets' = SaveTarget(targets, SearcherIsTextField(widget))
    /\ captured' = TRUE
    /\ UNCHANGED <<now, schedVars, configVars, last_input_time, last_text, result,
                   bridgeVars, keyVars, widget, match, walk, streamVars, delayVars>>

FieldNext ==
    \/ AppTextChanged
    \/ SearcherIsTextFieldCall
    \/ SearcherOnTextChange
    \/ ListenerIsTargetFieldCall
    \/ \E i \in 1..Len(targets) : ListenerMatchesTargetCall(i)
    \/ PredictorIsTargetFieldCall
    \/ \E i \in 1..Len(targets) : PredictorMatchesTargetCall(i)

FieldSpec == FieldInit /\ [][FieldNext]_vars

----------------------------------------------------------------------------
(* Matching a widget of which one node, the widget itself or an ancestor,
   has been disposed: every accessibility call on that node raises.
   stale_at is the node's position in Chain (1 = the widget), 0 if every
   node is alive *)

StaleWidgets ==
    {w \in [role : {"ROLE_ENTRY", "ROLE_TERMINAL"}, name : {"", "field"},
            interfaces : InterfaceLists, states : {DefaultWidget.states},
            contenteditable : {FALSE}, ancestors : Ancestries, loops_to : {0},
            stale_at : 0..(MaxAncestors + 1)] :
        w.stale_at <= Len(Chain(w))}

(* The nodes a walk visits before a call raises *)
ReadableChain(w) ==
    IF w.stale_at = 0 THEN Chain(w) ELSE SubSeq(Chain(w), 1, w.stale_at - 1)

(* get_object_path: the except around the loop logs, and the path gathered so
   far is returned *)
GetObjectPathStale(w) == Reverse(WalkedFrom("get_object_path", ReadableChain(w)))

(* _get_path: the except inside the loop breaks, and the path gathered so far
   is returned *)
GetPathStale(w) == Reverse(WalkedFrom("_get_path", ReadableChain(w)))

(* TextFieldListener.matches_target; pyatspi.listInterfaces(obj) raises if the
   widget itself is disposed, and the except returns False *)
ListenerMatchesTargetStale(w, target) ==
    LET current_path == GetObjectPathStale(w)
        target_path == target.path
        app_matched ==
            \E i \in 1..Len(FirstTwo(current_path)),
               j \in 1..Len(FirstTwo(target_path)) :
                /\ current_path[i].role = target_path[j].role
                /\ current_path[i].name = target_path[j].name
    IN  /\ ~(Len(current_path) < 2 \/ Len(target_path) < 2)
        /\ app_matched
        /\ Last(current_path).role = target.role
        /\ w.stale_at # 1
        /\ ToSet(target.interfaces) \subseteq ToSet(w.interfaces)

(* TextFieldManager.is_text_field; obj.getRole() raises if the widget itself
   is disposed, and the except returns None *)
ManagerIsTextFieldStale(w) ==
    IF w.stale_at = 1 THEN NoField
    ELSE IF w.role = "ROLE_TERMINAL"
    THEN IF "STATE_ENABLED" \in w.states /\ "STATE_VISIBLE" \in w.states
         THEN [role |-> w.role, interfaces |-> w.interfaces,
               path |-> GetPathStale(w), name |-> NameOrUnnamed(w.name)]
         ELSE NoField
    ELSE IF /\ w.role \in text_field_roles
            /\ required_interfaces \subseteq ToSet(w.interfaces)
            /\ "STATE_ENABLED" \in w.states
            /\ "STATE_VISIBLE" \in w.states
    THEN [role |-> w.role, interfaces |-> w.interfaces, path |-> GetPathStale(w),
          name |-> NameOrUnnamed(w.name)]
    ELSE NoField

StaleInit ==
    /\ AppInit
    /\ StreamIdle
    /\ DelayIdle
    /\ widget \in StaleWidgets
    /\ targets \in TargetLists
    /\ captured = FALSE
    /\ match = NoMatch
    /\ walk = NoWalk

(* TextFieldListener.matches_target(widget, targets[i]) *)
StaleListenerMatchesTargetCall(i) ==
    FieldCall("listener.matches_target", i,
              ListenerMatchesTargetStale(widget, targets[i]))

(* TextFieldManager.is_text_field(widget) *)
StaleManagerIsTextFieldCall ==
    FieldCall("manager.is_text_field", 0,
              ManagerIsTextFieldStale(widget) # NoField)

StaleNext ==
    \/ \E i \in 1..Len(targets) : StaleListenerMatchesTargetCall(i)
    \/ StaleManagerIsTextFieldCall

StaleSpec == StaleInit /\ [][StaleNext]_vars

----------------------------------------------------------------------------
(***************************************************************************)
(* The ancestor walks, one loop iteration at a time, on trees whose root   *)
(* may point back into the chain (a malformed or cyclic external tree).    *)
(* The walk runs synchronously inside its caller, so once started it keeps *)
(* taking steps: WalkSpec states that as weak fairness of its steps.       *)
(***************************************************************************)

WalkWidgets ==
    {w \in [role : LeafRoles, name : {"", "field"},
            interfaces : {DefaultWidget.interfaces},
            states : {DefaultWidget.states}, contenteditable : {FALSE},
            ancestors : Ancestries, loops_to : 0..(MaxAncestors + 1)] :
        w.loops_to <= Len(Chain(w))}

WalkInit ==
    /\ AppInit
    /\ StreamIdle
    /\ DelayIdle
    /\ widget \in WalkWidgets
    /\ targets = <<>>
    /\ captured = FALSE
    /\ match = NoMatch
    /\ walk = NoWalk

WalkUnchanged ==
    UNCHANGED <<now, schedVars, configVars, last_input_time, last_text, result,
                bridgeVars, keyVars, widget, targets, captured, match,
                streamVars, delayVars>>

(* path = []; current = obj *)
StartWalk(walker) ==
    /\ walk = NoWalk
    /\ walk' = [walker |-> walker, current |-> 1, path |-> <<>>, done |-> FALSE]
    /\ WalkUnchanged

(* The path after path.append(component); the model keeps its first MaxPath
   entries, the walk itself has no limit *)
Appended(path, component) ==
    IF Len(path) < MaxPath THEN Append(path, component) ELSE path

(* One iteration of while current: append the component, current =
   current.parent *)
WalkStep ==
    /\ ~walk.done
    /\ walk.current # 0
    /\ walk' = [walk EXCEPT
           !.path = IF Included(walk.walker, Chain(widget)[walk.current])
                    THEN Appended(@, Component(walk.walker,
                                               Chain(widget)[walk.current]))
                    ELSE @,
           !.current = Parent(widget, walk.current)]
    /\ WalkUnchanged

(* An accessibility call of the iteration raises: the walk stops with the
   path it has *)
WalkRaises ==
    /\ ~walk.done
    /\ walk.current # 0
    /\ walk' = [walk EXCEPT !.current = 0]
    /\ WalkUnchanged

(* current is None: return path[::-1] *)
WalkReturns ==
    /\ ~walk.done
    /\ walk.current = 0
    /\ walk' = [walk EXCEPT !.path = Reverse(@), !.done = TRUE]
    /\ WalkUnchanged

WalkNext ==
    \/ \E walker \in Walkers : StartWalk(walker)
    \/ WalkStep
    \/ WalkRaises
    \/ WalkReturns

WalkSpec == WalkInit /\ [][WalkNext]_vars /\ WF_vars(WalkNext)


(***************************************************************************)
(* The response stream of one completion request: every sequence of up to  *)
(* MaxChunks lines, read by _get_llm_prediction.                           *)
(***************************************************************************)

Pieces == {Absent, <<"l">>, <<" ">>}

Chunks ==
    {ObjectChunk(response, done) : response \in Pieces, done \in BOOLEAN}
    \cup {OtherChunk(kind) : kind \in {"invalid_json", "invalid_utf8", "not_object"}}

Streams == UNION {[1..n -> Chunks] : n \in 0..MaxChunks}

StreamInit ==
    /\ AppInit
    /\ FieldIdle
    /\ stream \in Streams
    /\ completion = NotReturned
    /\ DelayIdle

(* The status is 200 and the lines of the response are read to the end, to
   the first flagged chunk, or to the line that raises *)
GetLlmPrediction ==
    /\ ~completion.returned
    /\ completion' = [returned |-> TRUE, value |-> ReadCompletion(stream)]
    /\ UNCHANGED <<now, schedVars, configVars, last_input_time, last_text, result,
                   bridgeVars, keyVars, fieldVars, stream, delayVars>>

StreamNext == GetLlmPrediction

StreamSpec == StreamInit /\ [][StreamNext]_vars

----------------------------------------------------------------------------
(* The delay of the debounce timeout, with the clock at sub-millisecond
   resolution: time.time() is a float of seconds, the delay handed to
   GLib.timeout_add a whole number of milliseconds *)

(* int(x): x, a number of clock units, as whole milliseconds, truncated
   towards zero *)
IntMs(x) == IF x >= 0 THEN x \div UnitsPerMs ELSE 0 - ((0 - x) \div UnitsPerMs)

(* Variant: the timeout is armed without a delay *)
TimeoutDelayNone(current_time, lrt) == 0

(* Variant: the delay is not clamped at zero *)
TimeoutDelayUnclamped(current_time, lrt) ==
    IntMs(DebounceDelay * UnitsPerMs - (current_time - lrt))

(* time_since_last = current_time - self.last_request_time
   delay = max(0, int((self.debounce_delay - time_since_last) * 1000)) *)
TimeoutDelay(current_time, lrt) ==
    Max(0, IntMs(DebounceDelay * UnitsPerMs - (current_time - lrt)))

DelaySteps ==
    {(DebounceDelay * UnitsPerMs) \div 2 + 1,
     (DebounceDelay * UnitsPerMs) \div 2 - UnitsPerMs + 1,
     DebounceDelay * UnitsPerMs}

DelayHorizon == (StartClock + 2 * DebounceDelay) * UnitsPerMs + UnitsPerMs

DelayInit ==
    /\ AppInit
    /\ FieldIdle
    /\ StreamIdle
    /\ wall_clock = StartClock * UnitsPerMs
    /\ request_stamp = 0
    /\ timeout = NoTimeout
    /\ previous_stamp = 0

(* The clock advances; it never runs backwards *)
ClockAdvances(d) ==
    /\ wall_clock + d <= DelayHorizon
    /\ wall_clock' = wall_clock + d
    /\ UNCHANGED <<request_stamp, timeout, previous_stamp>>
    /\ UNCHANGED <<now, schedVars, configVars, last_input_time, last_text, result,
                   bridgeVars, keyVars, fieldVars, streamVars>>

(* _debounce_prediction_request: the pending timeout is removed; the change
   is dropped if a request is in flight, else a timeout is armed *)
ArmTimeout(in_flight) ==
    /\ timeout' = IF in_flight THEN NoTimeout
                  ELSE [armed |-> TRUE, at |-> wall_clock,
                        delay |-> TimeoutDelay(wall_clock, request_stamp)]
    /\ UNCHANGED <<wall_clock, request_stamp, previous_stamp>>
    /\ UNCHANGED <<now, schedVars, configVars, last_input_time, last_text, result,
                   bridgeVars, keyVars, fieldVars, streamVars>>

(* _execute_prediction_request up to the time stamp: GLib runs the callback
   once the interval has passed; with empty content it returns before the
   stamp is taken *)
TimeoutFires(empty) ==
    /\ timeout.armed
    /\ wall_clock >= timeout.at + timeout.delay * UnitsPerMs
    /\ timeout' = NoTimeout
    /\ request_stamp' = IF empty THEN request_stamp ELSE wall_clock
    /\ previous_stamp' = IF empty THEN previous_stamp ELSE request_stamp
    /\ UNCHANGED wall_clock
    /\ UNCHANGED <<now, schedVars, configVars, last_input_time, last_text, result,
                   bridgeVars, keyVars, fieldVars, streamVars>>

DelayNext ==
    \/ \E d \in DelaySteps : ClockAdvances(d)
    \/ \E in_flight \in BOOLEAN : ArmTimeout(in_flight)
    \/ \E empty \in BOOLEAN : TimeoutFires(empty)

DelaySpec == DelayInit /\ [][DelayNext]_vars


(* Properties of the scheduler, checked under Spec *)

InFlightTasks == {t \in TaskIds : TaskInFlight(tasks[t])}

LiveTimer == \E tm \in timers : tm.id = pending_timer

(* C1: at most one prediction task is in flight at any instant, whatever the
   sequence of content changes, timer fires, pumps, completions and shutdown. *)
C1_SingleFlight == Cardinality(InFlightTasks) <= 1

(* A task is in flight and a content change that arrived meanwhile was dropped *)
C1_Witness ==
    /\ Cardinality(InFlightTasks) = 1
    /\ nchanges > Cardinality(accepted)

(* C2: at most one debounce timer is live; the live timer is the one
   self._pending_timer names, and once a timer has fired the handle is None. *)
C2_SingleTimer ==
    /\ Cardinality(timers) <= 1
    /\ \A tm \in timers : tm.id = pending_timer
    /\ running /\ pending_timer # 0 => LiveTimer

(* A content change re-armed the timer, cancelling an unfired one *)
C2_Witness ==
    /\ superseded # {}
    /\ Cardinality(timers) = 1
    /\ LiveTimer

(* C3: processing is true exactly when a task exists that has neither
   completed nor been cancelled. *)
C3_ProcessingIffInFlight == processing <=> InFlightTasks # {}

(* C4 as stated: in every reachable state pending_content is set only while
   the timer armed for it is live, and it is cleared before the task exists. *)
C4_PendingOnlyWhileTimerLive ==
    /\ Truthy(pending_content) => LiveTimer
    /\ (\E t \in TaskIds : tasks[t].status = "created") => ~Truthy(pending_content)

(* C4 amended: the same, in every state before cleanup() has run. *)
C4_PendingOnlyWhileTimerLiveRunning == running => C4_PendingOnlyWhileTimerLive

(* A second cycle: an earlier timer fired and its task is done, and new
   content is pending with its timer live *)
C4_Witness ==
    /\ running
    /\ Truthy(pending_content)
    /\ LiveTimer
    /\ current_task # 0
    /\ TaskDone(tasks[current_task])

(* C5: a content change that is followed by another one less than
   debounce_delay later is never passed to the policy; only the later
   content is. *)
C5_OnlyLaterContentEvaluated == evaluated \cap followed_soon = {}

(* Nothing is left that could act without a new content change *)
Quiescent ==
    /\ running
    /\ timers = {}
    /\ ready = <<>>
    /\ idle_queue = <<>>
    /\ InFlightTasks = {}
    /\ ~processing

(* C6: once the content has been "hel" for idle_delay without a further
   change and nothing is left to run, a prediction for "hel" with the idle
   trigger has been fired. *)
C6_IdleTriggerFires ==
    (/\ Quiescent
     /\ nchanges > 0
     /\ last_change.content = Hel
     /\ now - last_change.time >= idle_delay)
    => \E f \in fired :
          f.seq = nchanges /\ f.segment = Hel /\ f.trigger_type = "idle_timeout"

CancelRequested ==
    ~running /\ current_task # 0 /\ tasks[current_task].must_cancel

Delivered(seq) ==
    \/ current_prediction.seq = seq
    \/ overlay.seq = seq
    \/ \E i \in 1..Len(idle_queue) : idle_queue[i].seq = seq

(* C7: after an in-flight request has been cancelled, its result is not
   delivered, processing is false, and _debounce_prediction_request would
   accept a content change rather than drop it. *)
C7_CancelClears ==
    CancelRequested =>
        /\ tasks[current_task].status = "cancelled"
        /\ ~processing
        /\ ~DebounceSkips(current_task, tasks, processing)
        /\ ~Delivered(tasks[current_task].seq)

(* A request waiting for the backend was cancelled *)
C7_Witness ==
    /\ CancelRequested
    /\ tasks[current_task].segment # None
    /\ tasks[current_task].status = "cancelled"

----------------------------------------------------------------------------
(* Properties of the policy, checked under PolicySpec *)

OrderedRule(text, last_change_time, t, mc, idle, trig) ==
    CASE text = <<>> -> <<"skip", "empty">>
      [] text # <<>> /\ Len(text) < mc -> <<"skip", "too_short">>
      [] text # <<>> /\ Len(text) >= mc /\ Last(text) = trig ->
            <<"fire", "delimiter">>
      [] text # <<>> /\ Len(text) >= mc /\ Last(text) # trig
            /\ t - last_change_time >= idle -> <<"fire", "idle">>
      [] OTHER -> <<"skip", "no_trigger">>

Outcome(r) ==
    IF r.should
    THEN <<"fire", CASE r.trigger_type = "trigger_char" -> "delimiter"
                     [] r.trigger_type = "idle_timeout" -> "idle"
                     [] OTHER -> "unknown">>
    ELSE <<"skip", CASE r.decision_reason = "Empty text" -> "empty"
                     [] r.decision_reason = "Text too short" -> "too_short"
                     [] r.decision_reason = "No trigger condition met" -> "no_trigger"
                     [] OTHER -> "unknown">>

(* C8: the decision of the policy is the ordered rule empty, too short,
   delimiter, idle, no trigger, for every text, clock and configuration. *)
C8_OrderedRule ==
    result # NoResult =>
        Outcome(result) = OrderedRule(result.text, last_input_time, now,
                                      min_chars, idle_delay, trigger)

(* The delimiter wins over an idle period that has also elapsed *)
C8_Witness ==
    /\ result.call = "_should_predict"
    /\ EndsWith(result.text, trigger)
    /\ now - last_input_time >= idle_delay
    /\ Outcome(result) = <<"fire", "delimiter">>

IsBlank(f) == Strip(f) = <<>>

NonBlank(f) == ~IsBlank(f)

LastNonEmptyFragment(text, trig) ==
    LET frs == SelectSeq(Split(text, trig), NonEmpty)
    IN  IF frs = <<>> THEN None ELSE Last(frs)

LastNonBlankFragment(text, trig) ==
    LET frs == SelectSeq(Split(text, trig), NonBlank)
    IN  IF frs = <<>> THEN None ELSE Strip(Last(frs))

DelimiterCase ==
    /\ result.call = "predict"
    /\ EndsWith(result.text, trigger)
    /\ Len(result.text) >= min_chars

OnlyDelimiterWhitespace(text, trig) ==
    \A i \in 1..Len(text) : text[i] \in Whitespace => text[i] = trig

(* C9 as stated: for a text that ends with the delimiter and is long enough,
   the segment is the last non-empty fragment of the split on the delimiter,
   and the trigger type is the delimiter's. *)
C9_LastNonEmptyFragment ==
    DelimiterCase =>
        /\ result.trigger_type = "trigger_char"
        /\ result.segment = LastNonEmptyFragment(result.text, trigger)

(* C9 amended: the segment is the last fragment that is not blank, with its
   surrounding whitespace stripped; it is the last non-empty fragment whenever
   the text holds no whitespace other than the delimiter; the backend is
   called exactly when such a fragment exists. *)
C9_LastNonBlankFragmentStripped ==
    DelimiterCase =>
        /\ result.trigger_type = "trigger_char"
        /\ result.segment = LastNonBlankFragment(result.text, trigger)
        /\ OnlyDelimiterWhitespace(result.text, trigger) =>
               result.segment = LastNonEmptyFragment(result.text, trigger)
        /\ result.requested <=> result.segment # None

(* "hello world " gives "world" *)
C9_Witness ==
    /\ DelimiterCase
    /\ result.text = HelloWorld
    /\ result.segment = <<"w", "o", "r", "l", "d">>
    /\ result.requested

(* C10: a non-empty text shorter than min_chars is skipped as too short,
   whatever the clock readings and whether or not it ends with the
   delimiter, and the backend is not called. *)
C10_TooShortAlwaysSkips ==
    (result # NoResult /\ result.text # <<>> /\ Len(result.text) < min_chars) =>
        /\ ~result.should
        /\ result.decision_reason = "Text too short"
        /\ ~result.requested
        /\ result.segment = None

(* "hi" with min_chars = 3, evaluated when the idle period has elapsed *)
C10_Witness ==
    /\ result.call = "predict"
    /\ result.text = Hi
    /\ min_chars = DefaultMinChars
    /\ now - last_input_time >= idle_delay
    /\ ~result.should

----------------------------------------------------------------------------
(* Properties of request completion, checked under Spec *)

(* The task is done and its done callback handle_task_result has run *)
Completed(t) == TaskDone(tasks[t]) /\ ~Scheduled(ready, t)

FailureOutcomes == {"cancelled", "unavailable", "failed"}

(* C11: once a request has completed (its done callback has run) processing
   is false and neither _debounce_prediction_request nor
   _execute_prediction_request would drop a content change; a result is
   handed to the overlay only if the request ended with text; a request that
   was cancelled, found the backend unavailable or failed delivers nothing. *)
C11_CompletionClearsAndForwardsText ==
    /\ (current_task # 0 /\ Completed(current_task)) =>
           /\ ~processing
           /\ ~DebounceSkips(current_task, tasks, processing)
           /\ ~ExecuteSkips(processing)
    /\ \A seq \in 1..MaxChanges :
           Delivered(seq) => [seq |-> seq, outcome |-> "text"] \in completions
    /\ \A c \in completions :
           c.outcome \in FailureOutcomes => ~Delivered(c.seq)

(* The first request found the backend unavailable or failed, nothing was
   delivered, and the next content change was accepted and reached the policy *)
C11_Witness ==
    /\ \E c \in completions :
           c.seq = 1 /\ c.outcome \in {"unavailable", "failed"}
    /\ ~Delivered(1)
    /\ 2 \in accepted
    /\ 2 \in evaluated
    /\ ~processing

----------------------------------------------------------------------------
(* Properties of detection and matching, checked under FieldSpec *)

(* The widget's text change has reached _debounce_prediction_request *)
ReachedScheduler == nchanges > 0 /\ pending_content = Hel

(* What TextFieldManager requires of a widget, written out *)
DetectionRule(w) ==
    /\ "STATE_ENABLED" \in w.states
    /\ "STATE_VISIBLE" \in w.states
    /\ \/ w.role = "ROLE_TERMINAL"
       \/ /\ w.role \in text_field_roles
          /\ {"Text", "EditableText", "Component"} \subseteq ToSet(w.interfaces)

(* C12 as stated: a text change of the widget reaches the scheduler if and
   only if the widget matches at least one loaded target descriptor, and never
   when no descriptor is loaded. *)
C12_TargetIffMatchesDescriptor ==
    match.call = "_on_text_changed" =>
        /\ ReachedScheduler <=>
               \E i \in 1..Len(targets) : ListenerMatchesTarget(widget, targets[i])
        /\ targets = <<>> => ~ReachedScheduler

(* C12 amended: in the application a text change of the widget reaches the
   scheduler if and only if TextFieldManager.is_text_field detects the widget,
   whatever descriptors are loaded; is_target_field of the listener and of
   predictor.py is true if and only if some loaded descriptor matches, hence
   false for an empty list. *)
C12_DetectedIffTextField ==
    /\ match.call = "_on_text_changed" =>
           /\ ReachedScheduler <=> DetectionRule(widget)
           /\ match.accepted <=> ReachedScheduler
    /\ match.call = "listener.is_target_field" =>
           /\ match.accepted <=>
                  \E i \in 1..Len(targets) :
                      ListenerMatchesTarget(widget, targets[i])
           /\ targets = <<>> => ~match.accepted
    /\ match.call = "predictor.is_target_field" =>
           /\ match.accepted <=>
                  \E i \in 1..Len(targets) :
                      PredictorMatchesTarget(widget, targets[i])
           /\ targets = <<>> => ~match.accepted

(* No descriptor is loaded and the widget's text change reached the scheduler *)
C12_Witness ==
    /\ match.call = "_on_text_changed"
    /\ targets = <<>>
    /\ ReachedScheduler

(* C13: a widget whose role differs from a descriptor's role does not match
   it, and a widget whose role differs from the role of every loaded
   descriptor is not a target field, whatever interfaces it has. *)
C13_RoleMismatchNeverMatches ==
    /\ (/\ match.call \in {"listener.matches_target", "predictor.matches_target"}
        /\ widget.role # targets[match.target].role)
           => ~match.accepted
    /\ (/\ match.call \in {"listener.is_target_field", "predictor.is_target_field"}
        /\ \A i \in 1..Len(targets) : widget.role # targets[i].role)
           => ~match.accepted

(* The listener was asked about an entry of the descriptor's application that
   has all the descriptor's interfaces, and a descriptor of another role *)
C13_Witness ==
    /\ match.call = "listener.matches_target"
    /\ widget.role = "ROLE_ENTRY"
    /\ targets[match.target].role = "ROLE_TEXT"
    /\ ToSet(targets[match.target].interfaces) \subseteq ToSet(widget.interfaces)
    /\ Len(GetObjectPath(widget)) >= 2
    /\ GetObjectPath(widget)[1] = targets[match.target].path[1]
    /\ ~match.accepted

TerminalCalls == {"_on_text_changed", "searcher.is_text_field"}

(* C14: a terminal matches, in the application and in the capture tool, if
   and only if it is enabled and visible or showing, whatever its interfaces
   and ancestors. *)
C14_TerminalEnabledVisibleOrShowing ==
    (match.call \in TerminalCalls /\ widget.role = "ROLE_TERMINAL") =>
        (match.accepted <=>
            /\ "STATE_ENABLED" \in widget.states
            /\ \/ "STATE_VISIBLE" \in widget.states
               \/ "STATE_SHOWING" \in widget.states)


(* C15: a widget the capture tool accepted and saved is matched, once the
   target file has been written and read back, by the descriptor it produced:
   by the listener's matcher and by the old predictor's, also when ancestor
   names are empty and when the captured path has fewer than two entries. *)
C15_CapturedWidgetMatchesReloaded ==
    captured =>
        /\ ListenerMatchesTarget(widget, Last(targets))
        /\ PredictorMatchesTarget(widget, Last(targets))


(* C16: the ancestor-path walk terminates for every external tree, including
   one whose parent references form a cycle: a walk that has started
   eventually returns its path. *)
C16_WalkTerminates == (~walk.done) ~> walk.done


(*-- the pump, checked under KeySpec --*)

Awaiting(t) == tasks[t].status \in {"await_verify", "await_post"}

(* A step of the host loop that is not cleanup (which runs the asyncio loop
   itself): running still holds after it *)
HostLoopStep == running'

(* A task that ends in a step still has its done callback to run: the step
   ran the task's continuation only, not what the continuation scheduled *)
RunsReadyOnly ==
    \A t \in TaskIds :
        (TaskInFlight(tasks[t]) /\ ~TaskInFlight(tasks'[t]))
            => /\ TaskDone(tasks'[t])
               /\ Scheduled(ready', t)

(* A task that starts in a step stops at its first suspension point: it is
   awaiting a response, or it has ended *)
RunsToSuspension ==
    \A t \in TaskIds :
        (tasks[t].status = "created" /\ tasks'[t].status # "created")
            => Awaiting(t)' \/ (TaskDone(tasks'[t]) /\ Scheduled(ready', t))

(* A task whose response has not arrived is still awaiting it after the step *)
DoesNotAwaitResponse ==
    \A t \in TaskIds :
        (Awaiting(t) /\ ~Scheduled(ready, t))
            => tasks'[t].status = tasks[t].status

(* While a request awaits its response the host loop can dispatch a key
   event, a content change and every timer that is due *)
HostEventsDispatched ==
    (running /\ \E t \in TaskIds : Awaiting(t)) =>
        /\ ENABLED OnKey(FALSE, TRUE)
        /\ (nchanges < MaxChanges => ENABLED OnTextChanged(Hel))
        /\ \A tm \in timers : tm.due <= now => ENABLED TimerFires(tm)

(* C17: every pump runs only the continuations that are ready when it is
   called, each up to its next suspension point, and returns without waiting
   for a response; while a request awaits its response the host loop goes on
   dispatching content changes, key events and timers; and the pump stays
   armed after every call, one that raised included. *)
C17_PumpRunsReadyAndStaysArmed ==
    /\ [][HostLoopStep =>
            RunsReadyOnly /\ RunsToSuspension /\ DoesNotAwaitResponse]_vars
    /\ [](running => pump_armed)
    /\ []HostEventsDispatched

(* A request awaits its response, unanswered, after a later content change was
   dispatched, and the pump is armed *)
C17_Witness ==
    /\ running
    /\ pump_armed
    /\ \E t \in TaskIds :
           /\ tasks[t].status = "await_post"
           /\ ~Scheduled(ready, t)
           /\ tasks[t].seq < nchanges


(*-- accepting a prediction, checked under KeySpec --*)

(* The type commands that succeeded since the latest delivery *)
Injections == {i \in 1..Len(typed) : typed[i].ok}

(* A type command ran in the step *)
TypeCommandIssued == typed' # typed /\ typed' # <<>>

(* C20: each delivered prediction is injected at most once.  A pressed trigger
   key that finds a prediction runs exactly one type command, whose string is
   the prediction after exactly one delimiter character; and once a command
   has succeeded the prediction is forgotten, so that no further command runs
   until a new prediction is delivered. *)
C20_InjectedAtMostOnce ==
    /\ [](Cardinality(Injections) <= 1)
    /\ [](\A i \in Injections : i = Len(typed))
    /\ [](\A i \in 1..Len(typed) :
             /\ Len(typed[i].command) = Len(CompletionText) + 1
             /\ Head(typed[i].command) = " "
             /\ Tail(typed[i].command) = CompletionText)
    /\ [][TypeCommandIssued =>
            /\ Truthy(current_prediction.text)
            /\ typed' = Append(typed, Last(typed'))
            /\ Last(typed').seq = current_prediction.seq
            /\ Last(typed').command = <<" ">> \o current_prediction.text
            /\ (Last(typed').ok => current_prediction' = NoPrediction)]_vars
    /\ [][(Injections # {} /\ typed' # typed) =>
            (typed' = <<>> /\ Truthy(current_prediction'.text))]_vars

(* The prediction of the second content change was delivered and typed, with
   its delimiter, after a first type command for it had failed; it is
   forgotten *)
C20_Witness ==
    /\ Len(typed) = 2
    /\ ~typed[1].ok
    /\ typed[2].ok
    /\ typed[2].seq = 2
    /\ typed[2].command = <<" ">> \o CompletionText
    /\ current_prediction = NoPrediction


(*-- requests to the backend, checked under Spec --*)

FiredSeqs == {f.seq : f \in fired}

OutcomesOf(seq) == {c.outcome : c \in {c \in completions : c.seq = seq}}

(* C18 as stated: for every fired decision exactly one HTTP request is sent to
   the generate endpoint, the first fired decision after startup and decisions
   fired after a backend failure included. *)
C18_OneRequestPerFiredDecision ==
    \A seq \in FiredSeqs :
        (OutcomesOf(seq) \cap {"text", "empty", "failed", "unavailable"} # {})
            => requests[seq].verify + requests[seq].generate = 1

(* C18 amended: a fired decision sends at most one completion request to the
   generate endpoint: exactly one if the connection is verified when it fires
   or its verification succeeds, none if its verification fails.  While the
   connection is not verified (the first fired decision after startup and
   every decision fired after a failed verification) one verification request
   to the same endpoint goes first.  A decision that is not fired sends no
   request. *)
C18_OneCompletionRequestAfterVerification ==
    \A seq \in 1..MaxChanges :
        LET r == requests[seq]
        IN  IF seq \notin FiredSeqs THEN r = NoRequests
            ELSE /\ r.generate <= 1
                 /\ r.verify = (IF r.verified_before THEN 0 ELSE 1)
                 /\ (r.verified_before => r.generate = 1)
                 /\ (r.generate = 1 => connection_verified)
                 /\ (OutcomesOf(seq) \cap {"text", "empty", "failed"} # {}
                        => r.generate = 1)
                 /\ ("unavailable" \in OutcomesOf(seq)
                        => r.verify = 1 /\ r.generate = 0)

(* Two fired decisions have completed: the first sent a verification and a
   completion request, the second, fired with the connection verified, one
   completion request only *)
C18_Witness ==
    /\ FiredSeqs = {1, 2}
    /\ requests[1] = [verify |-> 1, generate |-> 1, verified_before |-> FALSE]
    /\ requests[2] = [verify |-> 0, generate |-> 1, verified_before |-> TRUE]
    /\ OutcomesOf(1) \cap {"text", "empty", "failed"} # {}
    /\ OutcomesOf(2) \cap {"text", "empty", "failed"} # {}


(*-- the response stream, checked under StreamSpec --*)

Decodable(line) == line.kind \in {"object", "not_object"}

(* The lines up to and including the first decodable chunk whose completion
   flag is set, or all of them *)
UpToFlagged(lines) ==
    IF \E i \in 1..Len(lines) : Decodable(lines[i]) /\ lines[i].done
    THEN SubSeq(lines, 1, CHOOSE i \in 1..Len(lines) :
                              /\ Decodable(lines[i]) /\ lines[i].done
                              /\ \A j \in 1..(i - 1) :
                                     ~(Decodable(lines[j]) /\ lines[j].done))
    ELSE lines

(* The partial-text fields of the decodable chunks, in order *)
RECURSIVE PartialTexts(_)
PartialTexts(lines) ==
    IF lines = <<>> THEN <<>>
    ELSE (IF Decodable(Head(lines)) /\ Head(lines).response # Absent
          THEN Head(lines).response ELSE <<>>)
         \o PartialTexts(Tail(lines))

(* C19: for every sequence of response chunks the completion returned is the
   trimmed concatenation, in order, of the partial-text fields of the
   decodable chunks up to and including the first flagged chunk, or up to the
   end of the stream; undecodable chunks are skipped without aborting the
   stream, and chunks after the flagged one contribute nothing. *)
C19_TrimmedConcatenation ==
    completion.returned =>
        completion.value = Strip(PartialTexts(UpToFlagged(stream)))


(*-- dropped content changes and timer fires, checked under Spec --*)

(* A content change is dispatched in the step *)
ContentChangedStep == nchanges' = nchanges + 1

(* The content changes that were dropped *)
DroppedChanges == (1..nchanges) \ accepted

(* C21: a content change that arrives while a request is in flight and
   processing is true is dropped with no effect on the scheduler:
   pending_content, last_request_time, processing and the tasks are unchanged,
   no timer is armed, the request in flight is not cancelled, and no request
   is ever queued or evaluated for the dropped text. *)
C21_DropLeavesSchedulerUnchanged ==
    /\ [][(ContentChangedStep /\ InFlightTasks # {} /\ processing) =>
            /\ nchanges' \notin accepted'
            /\ UNCHANGED <<pending_content, pending_seq, last_request_time,
                           processing, tasks, current_task, ready, timers,
                           pending_timer, idle_queue>>
            /\ timers' = {}]_vars
    /\ [](\A seq \in DroppedChanges :
             /\ seq \notin evaluated
             /\ pending_seq # seq
             /\ \A t \in TaskIds : tasks[t].seq # seq)

(* The second content change was dropped while the request of the first was
   awaiting its response; that request is still awaiting it, uncancelled *)
C21_Witness ==
    /\ DroppedChanges = {2}
    /\ processing
    /\ pending_content = None
    /\ timers = {}
    /\ \E t \in TaskIds :
           /\ tasks[t].status = "await_post"
           /\ tasks[t].seq = 1
           /\ ~tasks[t].must_cancel


(* A debounce timer fires in the step: it leaves the timers, and the step is
   neither a content change nor cleanup, which remove timers without running
   them *)
TimerFiredStep == timers' # timers /\ ~ContentChangedStep /\ running'

(* The content of an accepted change is gone: it is not pending, no task
   holds it and the policy has not seen it *)
Lost(seq) ==
    /\ seq \in accepted
    /\ pending_seq # seq
    /\ seq \notin evaluated
    /\ \A t \in TaskIds : tasks[t].seq # seq

(* C22: when the debounce timer fires while processing is already true, the
   pending content is dropped: no task is created and the policy is not
   evaluated for it, then or later, and the scheduler is left with no pending
   timer and no pending content. *)
C22_FireWhileProcessingDrops ==
    /\ [][(TimerFiredStep /\ processing /\ Truthy(pending_content)) =>
            /\ UNCHANGED <<tasks, current_task, ready, processing, evaluated,
                           fired, idle_queue>>
            /\ pending_content' = None
            /\ pending_timer' = 0
            /\ timers' = {}
            /\ \E seq \in 1..MaxChanges : seq = pending_seq /\ Lost(seq)']_vars
    /\ [][\A seq \in 1..MaxChanges : Lost(seq) => Lost(seq)']_vars

(* The timer of the second content change fired while processing was still
   true and its content was dropped: nothing is pending, no task holds it *)
C22_Witness ==
    /\ running
    /\ processing
    /\ Lost(2)
    /\ 2 \notin superseded
    /\ pending_content = None
    /\ pending_timer = 0
    /\ timers = {}


(* A task is created in the step: the fired timer goes on to have the policy
   evaluated *)
TaskCreatedStep ==
    \E t \in TaskIds : tasks'[t].status = "created" /\ tasks[t].status # "created"

(* C23: last_request_time is modified only by a timer fire that goes on to
   evaluate the policy; a timer fire that finds no pending content, or that
   drops its content because a request is already in progress, leaves it
   unchanged, as does every content change and every completion of a
   request. *)
C23_LastRequestTimeOnlyOnEvaluation ==
    [][last_request_time' # last_request_time =>
          (TimerFiredStep /\ TaskCreatedStep)]_vars


(* The policy, evaluated now on the pending content, yields skip *)
PolicySkipsPending ==
    ~PredictSync(pending_content, now, last_input_time, last_text,
                 min_chars, idle_delay, trigger).requested

(* C24: when the timer fires, with no request in progress, and the policy
   yields skip for the pending content (empty, too short, or no trigger),
   then as soon as the timer callback has returned processing is false, no
   task occupies the in-flight slot, and a content change arriving right
   after, before the next pump, is accepted and not dropped. *)
C24_SkipLeavesIdle ==
    [][(TimerFiredStep /\ ~processing /\ PolicySkipsPending) =>
          /\ ~processing'
          /\ InFlightTasks' = {}
          /\ ~DebounceSkips(current_task', tasks', processing')]_vars


(* C25: a content change that is accepted, is not superseded by a later
   content change and is not followed by shutdown is eventually evaluated by
   the policy; in particular it is never silently discarded when its timer
   fires.  Stated for the latest content change, with text in it, at the
   instant it arrived (its timer was armed with delay 0 and no pump period has
   passed): once its timer has fired, its content is held by a task or has
   been evaluated. *)
C25_AcceptedIsNeverDiscarded ==
    (running /\ nchanges \in accepted \ superseded
             /\ Truthy(last_change.content)
             /\ now = last_change.time)
        => ~Lost(nchanges)


(* C26: the delay of every armed debounce timer is
   max(0, debounce_delay - (now - last_request_time)) cut to whole
   milliseconds: at most that value and less than one millisecond below it;
   it is never negative, never larger than debounce_delay, and it is 0 when at
   least debounce_delay has elapsed since last_request_time, the first
   content change after startup included.  Checked under DelaySpec *)
ExactDelay == Max(0, DebounceDelay * UnitsPerMs - (timeout.at - request_stamp))

C26_DelayIsClampedRemainderInWholeMs ==
    timeout.armed =>
        /\ timeout.delay * UnitsPerMs <= ExactDelay
        /\ ExactDelay < (timeout.delay + 1) * UnitsPerMs
        /\ timeout.delay >= 0
        /\ timeout.delay <= DebounceDelay
        /\ (timeout.at - request_stamp >= DebounceDelay * UnitsPerMs
                => timeout.delay = 0)

(* C26, witness: a timer armed less than debounce_delay after the latest
   request, the remainder not a whole number of milliseconds *)
C26_Witness ==
    /\ timeout.armed
    /\ request_stamp > 0
    /\ timeout.delay > 0
    /\ ExactDelay % UnitsPerMs # 0

(* C26 as stated: the delay of every armed debounce timer equals
   max(0, debounce_delay - (now - last_request_time)) *)
C26_DelayEqualsClampedRemainder ==
    timeout.armed => timeout.delay * UnitsPerMs = ExactDelay


(* C27: after shutdown, whatever state it came from, no debounce timer is
   live, the task that was in flight has been cancelled, processing is false
   and no task is in flight; from then on no timer fires, no request is
   dispatched and no result is delivered to the overlay. *)
ShutdownStep == running /\ ~running'

C27_ShutdownStopsEverything ==
    /\ [](~running => /\ timers = {}
                      /\ ~processing
                      /\ InFlightTasks = {})
    /\ [][ShutdownStep =>
            \A t \in InFlightTasks : tasks'[t].status = "cancelled"]_vars
    /\ [][~running =>
            UNCHANGED <<timers, tasks, requests, fired, evaluated, idle_queue,
                        current_prediction, overlay>>]_vars

(* C27, witness: shutdown reached from Requesting, the request awaiting the
   completion; an earlier result was on display and stays as it was *)
C27_Witness ==
    /\ ~running
    /\ current_task # 0
    /\ tasks[current_task].status = "cancelled"
    /\ requests[tasks[current_task].seq].generate > 0
    /\ overlay # NoPrediction
    /\ overlay.seq # tasks[current_task].seq


(* C28: predict() resets the idle clock (last_input_time) to the current
   time exactly when the text it is handed differs from the text it was
   handed before (last_text); handed the same text again it leaves the idle
   clock as it was.  Either way last_text is then the text handed over, and
   _should_predict alone touches neither.  Checked under PolicySpec *)
C28_IdleClockResetIffTextDiffers ==
    [][/\ result'.call = "predict" =>
            /\ last_input_time' = IF result'.text # last_text
                                  THEN now ELSE last_input_time
            /\ last_text' = result'.text
       /\ result'.call # "predict" =>
            UNCHANGED <<last_input_time, last_text>>]_vars

(* C28, witness: the policy was evaluated with the text it had seen before,
   and the idle clock still shows the earlier time *)
C28_Witness ==
    /\ result.call = "predict"
    /\ result.text = Hel
    /\ last_text = Hel
    /\ last_input_time < now
    /\ last_input_time > 0


(*-- descriptor matching, checked under FieldSpec --*)

NonTerminalOfRole(w, role) == w.role # "ROLE_TERMINAL" /\ w.role = role

HasAll(w, interfaces) ==
    \A x \in interfaces : \E i \in 1..Len(w.interfaces) : w.interfaces[i] = x

(* Some pair of the first two path entries of the widget and of the
   descriptor agrees on role and name *)
PairAgrees(w, target) ==
    \E a \in ToSet(FirstTwo(GetObjectPath(w))), b \in ToSet(FirstTwo(target.path)) :
        a.role = b.role /\ a.name = b.name

SameApplication(w, target) ==
    /\ Len(GetObjectPath(w)) >= 2
    /\ Len(target.path) >= 2
    /\ PairAgrees(w, target)

(* C29: for a widget that is not a terminal and has the descriptor's role, the
   interface check passes if and only if every required interface is among
   the widget's interfaces: further interfaces of the widget do not matter, a
   missing one prevents the match.  The listener requires the application to
   agree as well; the application's detection requires its own list of
   interfaces of every enabled, visible widget with a text-field role. *)
C29_InterfaceCheckIsSubset ==
    /\ (/\ match.call = "predictor.matches_target"
        /\ NonTerminalOfRole(widget, targets[match.target].role))
           => (match.accepted <=>
                   HasAll(widget, ToSet(targets[match.target].interfaces)))
    /\ (/\ match.call = "listener.matches_target"
        /\ NonTerminalOfRole(widget, targets[match.target].role)
        /\ SameApplication(widget, targets[match.target]))
           => (match.accepted <=>
                   HasAll(widget, ToSet(targets[match.target].interfaces)))
    /\ (/\ match.call = "_on_text_changed"
        /\ widget.role # "ROLE_TERMINAL"
        /\ widget.role \in text_field_roles
        /\ "STATE_ENABLED" \in widget.states
        /\ "STATE_VISIBLE" \in widget.states)
           => (match.accepted <=> HasAll(widget, required_interfaces))

(* C29, witness: the listener matched a widget that has an interface the
   descriptor does not require *)
C29_Witness ==
    /\ match.call = "listener.matches_target"
    /\ match.accepted
    /\ NonTerminalOfRole(widget, targets[match.target].role)
    /\ targets[match.target].interfaces # <<>>
    /\ \E i \in 1..Len(widget.interfaces) :
           widget.interfaces[i] \notin ToSet(targets[match.target].interfaces)


(* C30 as stated: for a widget that is not a terminal, matching requires a
   pair among the first two path entries of widget and descriptor that agrees
   on role and name; without one the widget does not match, in the listener
   and in the application, whatever its role and interfaces. *)
C30_NoMatchWithoutApplicationPair ==
    /\ (/\ match.call = "listener.matches_target"
        /\ widget.role # "ROLE_TERMINAL"
        /\ ~PairAgrees(widget, targets[match.target]))
           => ~match.accepted
    /\ (/\ match.call = "_on_text_changed"
        /\ widget.role # "ROLE_TERMINAL"
        /\ targets # <<>>
        /\ \A i \in 1..Len(targets) : ~PairAgrees(widget, targets[i]))
           => ~match.accepted

(* C30 amended: the listener matches a widget that is not a terminal if and
   only if both paths have at least two entries, a pair among their first two
   entries agrees on role and name, the widget has the descriptor's role and
   it has the descriptor's interfaces; the path entries below the first two
   play no part.  The matcher of predictor.py and the application's detection
   do not look at the path. *)
C30_ListenerRequiresApplicationPair ==
    /\ (match.call = "listener.matches_target" /\ widget.role # "ROLE_TERMINAL")
           => (match.accepted <=>
                   /\ SameApplication(widget, targets[match.target])
                   /\ widget.role = targets[match.target].role
                   /\ HasAll(widget, ToSet(targets[match.target].interfaces)))
    /\ (match.call = "predictor.matches_target" /\ widget.role # "ROLE_TERMINAL")
           => (match.accepted <=>
                   /\ widget.role = targets[match.target].role
                   /\ HasAll(widget, ToSet(targets[match.target].interfaces)))
    /\ (match.call = "_on_text_changed" /\ widget.role # "ROLE_TERMINAL")
           => (match.accepted <=> DetectionRule(widget))

(* C30, witness: the listener rejected a widget that has the descriptor's
   role and interfaces, and whose leaf entry, the third of its path, is the
   descriptor's leaf: no pair of the first two entries agrees *)
C30_Witness ==
    /\ match.call = "listener.matches_target"
    /\ ~match.accepted
    /\ NonTerminalOfRole(widget, targets[match.target].role)
    /\ HasAll(widget, ToSet(targets[match.target].interfaces))
    /\ Len(GetObjectPath(widget)) = 3
    /\ \E j \in 1..Len(targets[match.target].path) :
           targets[match.target].path[j] = GetObjectPath(widget)[3]
    /\ ~PairAgrees(widget, targets[match.target])


(*-- disposed widgets, checked under StaleSpec --*)

(* C31: if reading a property of the widget or of one of its ancestors fails
   during matching, the result is non-match: a walk that failed part-way
   never yields a match computed from the truncated path. *)
C31_StaleNeverMatches ==
    (/\ match.call \in {"listener.matches_target", "manager.is_text_field"}
     /\ widget.stale_at # 0)
        => ~match.accepted


(* C32: between callbacks the application holds no reference to a live
   widget: self.current_field is None whenever no callback is running, so no
   later callback can query a widget that an earlier one obtained. *)
C32_NoWidgetHeldBetweenCallbacks == current_field = 0


(* C33 as stated: two consecutive timer fires that set last_request_time, and
   so any two that create a task, are at least debounce_delay apart. *)
C33_FiresDebounceDelayApart ==
    previous_stamp # 0 =>
        request_stamp - previous_stamp >= DebounceDelay * UnitsPerMs

(* C33 amended: they are more than debounce_delay less one millisecond apart:
   the delay of the timer is the remainder cut to whole milliseconds.
   Checked under DelaySpec *)
C33_FiresAlmostDebounceDelayApart ==
    previous_stamp # 0 =>
        request_stamp - previous_stamp > (DebounceDelay - 1) * UnitsPerMs

(* C33, witness: two fires less than debounce_delay apart *)
C33_Witness ==
    /\ previous_stamp # 0
    /\ request_stamp - previous_stamp < DebounceDelay * UnitsPerMs


(* C34: the content a fired timer hands to the policy is that of the most
   recent content change accepted before the fire: the task it creates
   carries the pending content, which stems from the latest accepted change
   and, if that is the latest change of all, is its content; a change
   whose timer a later change cancelled is never evaluated. *)
LatestAccepted == CHOOSE m \in accepted : \A x \in accepted : x <= m

C34_LatestAcceptedContentEvaluated ==
    /\ [](evaluated \cap superseded = {})
    /\ [](Truthy(pending_content) =>
              /\ pending_seq = LatestAccepted
              /\ (nchanges \in accepted => pending_content = last_change.content))
    /\ [][(TimerFiredStep /\ TaskCreatedStep) =>
            \E t \in TaskIds :
                /\ tasks[t].status # "created"
                /\ tasks'[t].status = "created"
                /\ tasks'[t].seq = LatestAccepted
                /\ tasks'[t].seq = pending_seq
                /\ tasks'[t].content = pending_content]_vars

(* C34, witness: the first change was superseded before its timer fired and
   the content of the second has been evaluated *)
C34_Witness ==
    /\ superseded = {1}
    /\ accepted = {1, 2}
    /\ evaluated = {2}


(* C35: with the pump served again and again and a backend that answers,
   fails or is cancelled, processing becomes false again after every task
   creation: the scheduler does not stay in Requesting for ever.  Checked
   under LiveSpec *)
C35_ProcessingEventuallyCleared == processing ~> ~processing

(* C35, witness: a request was sent to the backend, its task has finished and
   the flag is down again *)
C35_Witness ==
    /\ running
    /\ ~processing
    /\ current_task # 0
    /\ tasks[current_task].status = "done"
    /\ requests[tasks[current_task].seq].generate > 0


(*-- the segment, checked under PolicySpec --*)

Blank(text) == \A i \in 1..Len(text) : text[i] \in Whitespace

(* The characters after the last delimiter of the text *)
RECURSIVE AfterLastDelimiter(_, _)
AfterLastDelimiter(text, trig) ==
    IF text = <<>> \/ Last(text) = trig THEN <<>>
    ELSE Append(AfterLastDelimiter(SubSeq(text, 1, Len(text) - 1), trig), Last(text))

(* No fragment of the text can serve as segment: a text that ends with the
   delimiter holds nothing but delimiters and whitespace, any other text has
   nothing but whitespace after its last delimiter *)
NoUsableFragment(text, trig) ==
    IF EndsWith(text, trig)
    THEN \A i \in 1..Len(text) : text[i] = trig \/ text[i] \in Whitespace
    ELSE Blank(AfterLastDelimiter(text, trig))

(* C36: a segment handed to the backend is not empty and holds no delimiter;
   when the policy decides to predict but the text has no usable fragment,
   the backend is not called and the result carries no segment and no text. *)
C36_SegmentNonEmptyWithoutDelimiter ==
    result.call = "predict" =>
        /\ result.requested =>
               /\ result.segment # None
               /\ Len(result.segment) > 0
               /\ \A i \in 1..Len(result.segment) : result.segment[i] # trigger
        /\ (result.should /\ NoUsableFragment(result.text, trigger)) =>
               /\ ~result.requested
               /\ result.segment = None
               /\ result.reason = "No valid segment found"
        /\ (result.should /\ ~NoUsableFragment(result.text, trigger)) =>
               result.requested

(* C36, witness: the idle period has elapsed for a text whose last fragment
   is whitespace, and the backend is not called *)
C36_Witness ==
    /\ result.call = "predict"
    /\ result.should
    /\ result.trigger_type = "idle_timeout"
    /\ ~Blank(result.text)
    /\ ~result.requested


(*-- key events, checked under KeySpec --*)

(* _on_key has nothing to accept: no field observed yet or no prediction *)
NothingToAccept == current_field = 0 \/ ~Truthy(current_prediction.text)

(* A key event was handled and its record differs from the previous one *)
KeyHandledStep == key_event' # key_event

(* C37: with no active prediction, or no field observed yet, every key event
   is passed through, the trigger key included, and no type command is run; a
   key other than the trigger key is never consumed in any state. *)
C37_NoPredictionPassesKeysThrough ==
    /\ [](key_event.key = "other" => ~key_event.consumed)
    /\ [][(KeyHandledStep /\ NothingToAccept) =>
            (~key_event'.consumed /\ typed' = typed)]_vars
    /\ [][(typed' # typed /\ typed' # <<>>) => ~NothingToAccept]_vars

(* C37, witness: a prediction was accepted, and the next press of the trigger
   key, with nothing left to accept, was passed through *)
C37_Witness ==
    /\ key_event = KeyEvent(TRUE, TRUE, FALSE)
    /\ current_field # 0
    /\ typed # <<>>
    /\ Last(typed).ok
    /\ NothingToAccept


(* A release of the trigger key is handled while the latest key event on
   record is a press of the trigger key *)
TriggerReleaseAfterPress ==
    /\ key_event.key = "trigger"
    /\ key_event.type = "pressed"
    /\ key_event'.key = "trigger"
    /\ key_event'.type = "released"

(* C38: the press of the trigger key and the release that follows it get the
   same verdict from _on_key, both consumed or both passed through; in
   particular the release after a consumed press is consumed. *)
C38_PressAndReleaseSameVerdict ==
    [][TriggerReleaseAfterPress => key_event'.consumed = key_event.consumed]_vars


(* C39: a change of the field's content discards the prediction delivered
   before it, current_prediction cleared and the overlay hidden, so a type
   command only ever injects a prediction computed for the latest content
   change. *)
C39_ContentChangeDiscardsPrediction ==
    /\ [][ContentChangedStep =>
            (current_prediction' = NoPrediction /\ overlay' = NoPrediction)]_vars
    /\ [][TypeCommandIssued => Last(typed').seq = nchanges]_vars

====
